---- MODULE Spec2Model ----
(***************************************************************************)
(* A state-machine model of the farm simulation core of                    *)
(* ClayWarren/farmingsimulator: the economy ledger, the crop registry, the *)
(* field-state machine, the land / building / equipment / attachment /     *)
(* livestock registries, the per-frame update sweep and the save/load      *)
(* codec.                                                                  *)
(*                                                                         *)
(* Conventions.                                                            *)
(*  - A grid cell is the pair <<x, z>> of its world coordinates (multiples *)
(*    of 2, as produced by Math.round(p / 2) * 2); its y is GridY.         *)
(*  - A JavaScript Map is a TLA+ function whose DOMAIN is the set of keys  *)
(*    present.  The string key `${x}_${z}` is injective on integer cells,  *)
(*    so the cell itself is the key.                                       *)
(*  - Fractional multipliers are kept as integers: effect multipliers in   *)
(*    tenths, weather multipliers in hundredths.  Comparisons and floors   *)
(*    are computed exactly on the scaled integers.                         *)
(*  - deltaTime is a whole number of seconds; with timeScale = 60 one      *)
(*    second is one game minute and realTimeAccumulator stays 0.           *)
(*  - Math.random() is a nondeterministic input of the action that draws.  *)
(***************************************************************************)
EXTENDS Integers, Sequences, FiniteSets, TLC

(***************************************************************************)
(* Catalogs and program constants                                          *)
(***************************************************************************)
CropTypes == {"wheat", "corn", "potato", "carrot"}

seedPrices == [wheat |-> 2, corn |-> 3, potato |-> 4, carrot |-> 1]

basePrices == [wheat |-> 8, corn |-> 12, potato |-> 10, carrot |-> 6]

growthTime == [wheat |-> 5, corn |-> 7, potato |-> 6, carrot |-> 4]

StartMoney == 100000

BaseCapacity == 500

PriceUpdateInterval == 300

WeatherChangeDuration == 300

DaysInSeason == 30

Seasons == <<"Spring", "Summer", "Fall", "Winter">>

SeasonSet == {"Spring", "Summer", "Fall", "Winter"}

WeatherTypes == {"Sunny", "Cloudy", "Rainy", "Stormy"}

GridY == 0

NoneId == "none"

\* EquipmentSystem.initializeEquipmentCatalog: multipliers in tenths, 0 = the
\* effect is absent (a falsy field is skipped by getEquipmentEffects).
equipmentCatalog ==
    [ basic_hoe           |-> [price |-> 0,     plantingSpeed |-> 10, harvestSpeed |-> 10, cropYield |-> 10, storageCapacity |-> 0,     fuelEfficiency |-> 0,  processingRate |-> 0],
      iron_hoe            |-> [price |-> 2500,  plantingSpeed |-> 15, harvestSpeed |-> 13, cropYield |-> 12, storageCapacity |-> 0,     fuelEfficiency |-> 0,  processingRate |-> 0],
      steel_hoe           |-> [price |-> 8000,  plantingSpeed |-> 20, harvestSpeed |-> 18, cropYield |-> 15, storageCapacity |-> 0,     fuelEfficiency |-> 0,  processingRate |-> 0],
      watering_can        |-> [price |-> 1200,  plantingSpeed |-> 0,  harvestSpeed |-> 0,  cropYield |-> 11, storageCapacity |-> 0,     fuelEfficiency |-> 0,  processingRate |-> 0],
      fertilizer_spreader |-> [price |-> 3500,  plantingSpeed |-> 0,  harvestSpeed |-> 0,  cropYield |-> 14, storageCapacity |-> 0,     fuelEfficiency |-> 0,  processingRate |-> 0],
      advanced_tractor    |-> [price |-> 15000, plantingSpeed |-> 18, harvestSpeed |-> 16, cropYield |-> 0,  storageCapacity |-> 0,     fuelEfficiency |-> 15, processingRate |-> 0],
      harvester           |-> [price |-> 35000, plantingSpeed |-> 0,  harvestSpeed |-> 30, cropYield |-> 13, storageCapacity |-> 0,     fuelEfficiency |-> 0,  processingRate |-> 0],
      small_silo          |-> [price |-> 5000,  plantingSpeed |-> 0,  harvestSpeed |-> 0,  cropYield |-> 0,  storageCapacity |-> 1000,  fuelEfficiency |-> 0,  processingRate |-> 0],
      large_silo          |-> [price |-> 12000, plantingSpeed |-> 0,  harvestSpeed |-> 0,  cropYield |-> 0,  storageCapacity |-> 5000,  fuelEfficiency |-> 0,  processingRate |-> 0],
      warehouse           |-> [price |-> 25000, plantingSpeed |-> 0,  harvestSpeed |-> 0,  cropYield |-> 11, storageCapacity |-> 15000, fuelEfficiency |-> 0,  processingRate |-> 0],
      grain_mill          |-> [price |-> 18000, plantingSpeed |-> 0,  harvestSpeed |-> 0,  cropYield |-> 0,  storageCapacity |-> 0,     fuelEfficiency |-> 0,  processingRate |-> 10],
      food_processor      |-> [price |-> 22000, plantingSpeed |-> 0,  harvestSpeed |-> 0,  cropYield |-> 0,  storageCapacity |-> 0,     fuelEfficiency |-> 0,  processingRate |-> 12],
      packaging_plant     |-> [price |-> 45000, plantingSpeed |-> 0,  harvestSpeed |-> 0,  cropYield |-> 0,  storageCapacity |-> 0,     fuelEfficiency |-> 0,  processingRate |-> 20] ]

EquipmentIds == DOMAIN equipmentCatalog

\* AttachmentSystem.initializeAttachmentCatalog: speeds and efficiency in
\* tenths, 0 = absent.
attachmentCatalog ==
    [ heavy_plow       |-> [type |-> "plow",       price |-> 5000, tillingSpeed |-> 20, plantingSpeed |-> 0,  workingArea |-> 3, efficiency |-> 15],
      precision_seeder |-> [type |-> "seeder",     price |-> 7500, tillingSpeed |-> 0,  plantingSpeed |-> 25, workingArea |-> 3, efficiency |-> 18],
      field_cultivator |-> [type |-> "cultivator", price |-> 4000, tillingSpeed |-> 15, plantingSpeed |-> 13, workingArea |-> 2, efficiency |-> 13] ]

AttachmentIds == DOMAIN attachmentCatalog

\* Map insertion order of the attachment catalog (Array.from(values()).find).
attachmentOrder == <<"heavy_plow", "precision_seeder", "field_cultivator">>

VehicleIds == {"tractor_1", "combine_harvester_1"}

\* BuildingSystem.initializeBuildingCatalog: dimensions <<w, h, d>> in halves
\* of a world unit (the fence is 0.5 deep).
buildingCatalog ==
    [ wooden_fence |-> [price |-> 50,    dimensions |-> <<4, 4, 1>>,    storageCapacity |-> 0],
      small_shed   |-> [price |-> 500,   dimensions |-> <<10, 8, 10>>,  storageCapacity |-> 0],
      small_silo   |-> [price |-> 5000,  dimensions |-> <<8, 16, 8>>,   storageCapacity |-> 1000],
      large_silo   |-> [price |-> 12000, dimensions |-> <<16, 30, 16>>, storageCapacity |-> 5000] ]

BuildingIds == DOMAIN buildingCatalog

\* FarmExpansionSystem.initializePlots: bounds as [min, max] per axis.
plotCatalog ==
    [ starter_plot |-> [price |-> 0,     minX |-> -20, maxX |-> 20,  minY |-> -1, maxY |-> 1, minZ |-> -20, maxZ |-> 20],
      north_plot   |-> [price |-> 15000, minX |-> -20, maxX |-> 20,  minY |-> -1, maxY |-> 1, minZ |-> 22,  maxZ |-> 62],
      west_plot    |-> [price |-> 25000, minX |-> -62, maxX |-> -22, minY |-> -1, maxY |-> 1, minZ |-> -20, maxZ |-> 20] ]

PlotIds == DOMAIN plotCatalog

AnimalTypes == {"chicken", "cow", "pig", "sheep"}

\* LivestockSystem.animalInfo: productionRate in tenths.
animalInfo ==
    [ chicken |-> [purchasePrice |-> 50,   dailyUpkeep |-> 2,  maturityAge |-> 10, productType |-> "eggs", productValue |-> 5,   productionRate |-> 8],
      cow     |-> [purchasePrice |-> 1000, dailyUpkeep |-> 15, maturityAge |-> 30, productType |-> "milk", productValue |-> 25,  productionRate |-> 12],
      pig     |-> [purchasePrice |-> 300,  dailyUpkeep |-> 8,  maturityAge |-> 20, productType |-> "meat", productValue |-> 150, productionRate |-> 1],
      sheep   |-> [purchasePrice |-> 200,  dailyUpkeep |-> 5,  maturityAge |-> 15, productType |-> "wool", productValue |-> 30,  productionRate |-> 3] ]

(***************************************************************************)
(* State                                                                   *)
(***************************************************************************)
VARIABLES
    money,              \* EconomySystem.money
    inventory,          \* EconomySystem.inventory : crop type -> count
    marketPrices,       \* EconomySystem.marketPrices
    lastPriceUpdate,    \* EconomySystem.lastPriceUpdate (seconds)
    timeData,           \* TimeSystem.timeData
    weather,            \* WeatherSystem: [type, timer]
    crops,              \* CropSystem.crops : cell -> CropData
    fields,             \* FieldStateSystem.fields : cell -> FieldData
    ownedPlots,         \* FarmExpansionSystem: ids of plots with isOwned
    placedBuildings,    \* BuildingSystem.placedBuildings (a sequence)
    ownedEquipment,     \* EquipmentSystem.ownedEquipment
    ownedAttachments,   \* AttachmentSystem: ids of attachments with owned
    vehicleAttachments, \* AttachmentSystem.vehicleAttachments : vehicle -> type
    vehicles,           \* VehicleSystem: [occupied : vehicle -> BOOLEAN, current]
    animals,            \* LivestockSystem.animals, in insertion order
    nextAnimalId,       \* LivestockSystem.nextAnimalId
    storage,            \* localStorage['farming_simulator_save']
    isPaused,           \* Game.isPaused
    last,               \* the last operation: its name, arguments and result
    harvestLog,         \* history: cell -> date of its harvest command, while
                        \* no later command has touched the cell
    ops                 \* history: number of operations performed so far

vars == << money, inventory, marketPrices, lastPriceUpdate, timeData, weather,
           crops, fields, ownedPlots, placedBuildings, ownedEquipment,
           ownedAttachments, vehicleAttachments, vehicles, animals,
           nextAnimalId, storage, isPaused, last, harvestLog, ops >>

economyVars == << money, inventory, marketPrices, lastPriceUpdate >>

clockVars == << timeData, weather >>

farmVars == << crops, fields >>

registryVars == << ownedPlots, placedBuildings, ownedEquipment,
                   ownedAttachments, vehicleAttachments, vehicles >>

livestockVars == << animals, nextAnimalId >>

(***************************************************************************)
(* Helpers                                                                 *)
(***************************************************************************)
Max(a, b) == IF a >= b THEN a ELSE b

Min(a, b) == IF a <= b THEN a ELSE b

\* The empty Map.
EmptyMap == [c \in {} |-> 0]

\* Map.set(key, value)
MapSet(m, k, v) == [c \in (DOMAIN m) \cup {k} |-> IF c = k THEN v ELSE m[c]]

\* Map.delete(key)
MapDelete(m, k) == [c \in (DOMAIN m) \ {k} |-> m[c]]

\* seasons.indexOf(season), 0-based
seasonIndex(s) == (CHOOSE i \in 1..4 : Seasons[i] = s) - 1

(***************************************************************************)
(* TimeSystem                                                              *)
(***************************************************************************)
InitialTimeData == [hour |-> 6, minute |-> 0, day |-> 1, season |-> "Spring", year |-> 1]

\* addMinutes without the season carry: the day runs on past the last day
\* of the season.
addMinutesWithinSeason(td, minutes) ==
    LET m == td.minute + minutes
        h == td.hour + (m \div 60)
    IN  [ minute |-> m % 60,
          hour   |-> h % 24,
          day    |-> td.day + (h \div 24),
          season |-> td.season,
          year   |-> td.year ]

\* addMinutes: the carry loop (minute -> hour -> day -> season -> year, the
\* year incremented by advanceSeason on each return to Spring) in closed form.
addMinutes(td, minutes) ==
    LET m == td.minute + minutes
        h == td.hour + (m \div 60)
        d == (td.day - 1) + (h \div 24)
        s == seasonIndex(td.season) + (d \div DaysInSeason)
    IN  [ minute |-> m % 60,
          hour   |-> h % 24,
          day    |-> (d % DaysInSeason) + 1,
          season |-> Seasons[(s % 4) + 1],
          year   |-> td.year + (s \div 4) ]

\* TimeSystem.update with timeScale 60: one game minute per real second.
timeUpdate(td, deltaTime) == IF deltaTime > 0 THEN addMinutes(td, deltaTime) ELSE td

(***************************************************************************)
(* WeatherSystem                                                           *)
(***************************************************************************)
InitialWeather == [type |-> "Sunny", timer |-> 0]

\* WeatherSystem.update: drawn is the type considerWeatherChange ends with
\* (the current type when Math.random() >= 0.3, another type otherwise).
weatherUpdate(w, deltaTime, drawn) ==
    IF w.timer + deltaTime >= WeatherChangeDuration
    THEN [type |-> drawn, timer |-> 0]
    ELSE [type |-> w.type, timer |-> w.timer + deltaTime]

\* CropSystem.getWeatherGrowthMultiplier, in hundredths
getWeatherGrowthMultiplier(weatherType) ==
    CASE weatherType = "Rainy"  -> 130
      [] weatherType = "Stormy" -> 70
      [] weatherType = "Cloudy" -> 110
      [] OTHER                  -> 100

\* CropSystem.getWeatherYieldMultiplier, in hundredths
getWeatherYieldMultiplier(weatherType) ==
    CASE weatherType = "Rainy"  -> 120
      [] weatherType = "Stormy" -> 80
      [] weatherType = "Cloudy" -> 105
      [] OTHER                  -> 100

(***************************************************************************)
(* FarmExpansionSystem                                                     *)
(***************************************************************************)
InitialOwnedPlots == {"starter_plot"}

\* BoundingBox.intersectsPoint on an integer point (the engine's epsilon of
\* 0.001 cannot change the outcome on integers): inclusive bounds.
intersectsPoint(b, x, y, z) ==
    /\ b.minX <= x /\ x <= b.maxX
    /\ b.minY <= y /\ y <= b.maxY
    /\ b.minZ <= z /\ z <= b.maxZ

\* purchasePlot that hands the other purchased plots back
purchasePlotExchanging(owned, id) ==
    IF id \in PlotIds /\ id \notin owned THEN {"starter_plot", id} ELSE owned

\* FarmExpansionSystem.purchasePlot: the ownership flags after the call.
purchasePlot(owned, id) ==
    IF id \in PlotIds /\ id \notin owned THEN owned \cup {id} ELSE owned

\* FarmExpansionSystem.isPositionOnOwnedLand; every position the program
\* passes has y in {0, 0.05, 0.1}, inside every plot's [-1, 1].
isPositionOnOwnedLand(owned, c) ==
    \E p \in PlotIds : p \in owned /\ intersectsPoint(plotCatalog[p], c[1], GridY, c[2])

(***************************************************************************)
(* BuildingSystem                                                          *)
(***************************************************************************)
RECURSIVE getTotalStorageCapacity(_)
getTotalStorageCapacity(blds) ==
    IF blds = << >> THEN 0
    ELSE (IF blds[1].id \in BuildingIds THEN buildingCatalog[blds[1].id].storageCapacity ELSE 0)
         + getTotalStorageCapacity(Tail(blds))

\* BoundingBox.intersectsMinMax per axis, a centre c (world units) and a size
\* d (half units), compared in quarter units: [4c - d, 4c + d].
axisOverlap(c1, d1, c2, d2) ==
    ~ (4 * c1 + d1 < 4 * c2 - d2 \/ 4 * c1 - d1 > 4 * c2 + d2)

\* isPositionOccupied that compares the centres only
isPositionOccupiedByCentre(blds, c, dims) ==
    \E i \in 1..Len(blds) : blds[i].position = c

\* BuildingSystem.isPositionOccupied (both boxes are at the same height)
isPositionOccupied(blds, c, dims) ==
    \E i \in 1..Len(blds) :
        /\ axisOverlap(c[1], dims[1], blds[i].position[1], blds[i].dimensions[1])
        /\ axisOverlap(0, dims[2], 0, blds[i].dimensions[2])
        /\ axisOverlap(c[2], dims[3], blds[i].position[2], blds[i].dimensions[3])

\* placeBuilding that finds no catalog entry for the id: nothing is pushed.
placeBuildingNotFound(blds, id, c) == blds

\* BuildingSystem.placeBuilding
placeBuilding(blds, id, c) ==
    IF id \in BuildingIds
    THEN Append(blds, [id |-> id, position |-> c, dimensions |-> buildingCatalog[id].dimensions])
    ELSE blds

(***************************************************************************)
(* EquipmentSystem and AttachmentSystem                                    *)
(***************************************************************************)
InitialOwnedEquipment == {"basic_hoe"}

\* The product of the cropYield multipliers of the owned equipment, as a
\* fraction <<numerator, denominator>> (tenths each).
RECURSIVE cropYieldProduct(_)
cropYieldProduct(owned) ==
    IF owned = {} THEN <<1, 1>>
    ELSE LET e == CHOOSE x \in owned : TRUE
             rest == cropYieldProduct(owned \ {e})
             y == equipmentCatalog[e].cropYield
         IN  IF y # 0 THEN <<rest[1] * y, rest[2] * 10>> ELSE rest

RECURSIVE storageCapacitySum(_)
storageCapacitySum(owned) ==
    IF owned = {} THEN 0
    ELSE LET e == CHOOSE x \in owned : TRUE
         IN  equipmentCatalog[e].storageCapacity + storageCapacitySum(owned \ {e})

\* The order of the catalog array, which getAllEquipment and with it
\* getOwnedEquipment iterate in.
equipmentOrder ==
    << "basic_hoe", "iron_hoe", "steel_hoe", "watering_can", "fertilizer_spreader",
       "advanced_tractor", "harvester", "small_silo", "large_silo", "warehouse",
       "grain_mill", "food_processor", "packaging_plant" >>

\* EquipmentSystem.getOwnedEquipment: the owned items in catalog order.
getOwnedEquipment(owned) == SelectSeq(equipmentOrder, LAMBDA e : e \in owned)

\* The fold of getEquipmentEffects for one multiplicative field over the
\* items in the order given: a fraction <<numerator, denominator>> starting
\* at 1, multiplied by every truthy effect (tenths).
RECURSIVE multiplierProduct(_, _)
multiplierProduct(items, field) ==
    IF items = << >> THEN <<1, 1>>
    ELSE LET rest == multiplierProduct(SubSeq(items, 1, Len(items) - 1), field)
             y == equipmentCatalog[items[Len(items)]][field]
         IN  IF y # 0 THEN <<rest[1] * y, rest[2] * 10>> ELSE rest

\* EquipmentSystem.getEquipmentEffects
getEquipmentEffects(owned) ==
    [ plantingSpeed   |-> multiplierProduct(getOwnedEquipment(owned), "plantingSpeed"),
      harvestSpeed    |-> multiplierProduct(getOwnedEquipment(owned), "harvestSpeed"),
      cropYield       |-> cropYieldProduct(owned),
      storageCapacity |-> storageCapacitySum(owned),
      fuelEfficiency  |-> multiplierProduct(getOwnedEquipment(owned), "fuelEfficiency"),
      processingRate  |-> multiplierProduct(getOwnedEquipment(owned), "processingRate") ]

\* purchaseEquipment that replaces what was bought before
purchaseEquipmentReplacing(owned, e) ==
    IF e \in owned \/ e \notin EquipmentIds THEN owned ELSE {"basic_hoe", e}

\* EquipmentSystem.purchaseEquipment: the owned set after the call.
purchaseEquipment(owned, e) ==
    IF e \in owned \/ e \notin EquipmentIds THEN owned ELSE owned \cup {e}

\* The catalog attachment of a type (each type has exactly one).
attachmentOfType(t) == CHOOSE a \in AttachmentIds : attachmentCatalog[a].type = t

\* AttachmentSystem.vehicleAttachments is kept as a total function on the
\* vehicles; NoneId marks a vehicle without an entry.
InitialVehicleAttachments == [v \in VehicleIds |-> NoneId]

\* AttachmentSystem.getCurrentAttachment (NoneId for null)
getCurrentAttachment(va, vehicleId) == va[vehicleId]

\* AttachmentSystem.getAttachmentEffects: the catalog entry whose effects
\* are returned, NoneId for the empty object {}.
getAttachmentEffects(ownedAtt, va, vehicleId) ==
    IF va[vehicleId] = NoneId THEN NoneId
    ELSE IF attachmentOfType(va[vehicleId]) \in ownedAtt
         THEN attachmentOfType(va[vehicleId]) ELSE NoneId

\* AttachmentSystem.attachToVehicle
attachToVehicle(ownedAtt, va, vehicleId, t) ==
    IF attachmentOfType(t) \in ownedAtt THEN [va EXCEPT ![vehicleId] = t] ELSE va

\* AttachmentSystem.purchaseAttachment: marks the attachment owned and
\* auto-attaches it to tractor_1 when the tractor carries nothing.
purchaseAttachment(ownedAtt, va, a) ==
    IF a \in ownedAtt THEN [owned |-> ownedAtt, va |-> va, ok |-> FALSE]
    ELSE [ owned |-> ownedAtt \cup {a},
           va    |-> IF va["tractor_1"] = NoneId
                     THEN attachToVehicle(ownedAtt \cup {a}, va, "tractor_1", attachmentCatalog[a].type)
                     ELSE va,
           ok    |-> TRUE ]

(***************************************************************************)
(* EconomySystem                                                           *)
(***************************************************************************)
InitialInventory == [c \in CropTypes |-> 0]

\* Game.initializeSystems wires only setBuildingSystem into the ledger;
\* setEquipmentSystem is never called, so this.equipmentSystem is undefined.
EquipmentSystemSet == FALSE

\* setMoney without its clamp
setMoneyUnclamped(amount) == amount

\* EconomySystem.setMoney: Math.max(0, amount)
setMoney(amount) == Max(0, amount)

\* EconomySystem.getTotalInventoryCount
getTotalInventoryCount(inv) == inv["wheat"] + inv["corn"] + inv["potato"] + inv["carrot"]

\* EconomySystem.getStorageCapacity
getStorageCapacity(ownedEq, blds) ==
    BaseCapacity
    + (IF EquipmentSystemSet THEN getEquipmentEffects(ownedEq).storageCapacity ELSE 0)
    + getTotalStorageCapacity(blds)

\* EconomySystem.buySeeds
buySeeds(m, cropType, quantity) ==
    LET totalCost == seedPrices[cropType] * quantity
    IN  IF m >= totalCost THEN [money |-> m - totalCost, ok |-> TRUE]
        ELSE [money |-> m, ok |-> FALSE]

\* sellCrop that sells what is held when less than the quantity is held
sellCropUpTo(m, inv, prices, cropType, quantity) ==
    LET sold == Min(quantity, inv[cropType])
    IN  [ money     |-> m + prices[cropType] * sold,
          inventory |-> [inv EXCEPT ![cropType] = inv[cropType] - sold],
          ok        |-> inv[cropType] >= quantity ]

\* EconomySystem.sellCrop
sellCrop(m, inv, prices, cropType, quantity) ==
    IF inv[cropType] >= quantity
    THEN [ money     |-> m + prices[cropType] * quantity,
           inventory |-> [inv EXCEPT ![cropType] = inv[cropType] - quantity],
           ok        |-> TRUE ]
    ELSE [money |-> m, inventory |-> inv, ok |-> FALSE]

\* addToInventory that stores nothing when the request does not fit
addToInventoryAllOrNothing(inv, capacity, cropType, quantity) ==
    IF getTotalInventoryCount(inv) + quantity > capacity
    THEN [inventory |-> inv, ok |-> FALSE]
    ELSE [inventory |-> [inv EXCEPT ![cropType] = inv[cropType] + quantity], ok |-> TRUE]

\* addToInventory without its capacity test
addToInventoryUnclamped(inv, capacity, cropType, quantity) ==
    [inventory |-> [inv EXCEPT ![cropType] = inv[cropType] + quantity], ok |-> TRUE]

\* EconomySystem.addToInventory: the part that fits is stored when the
\* request would exceed the capacity.
addToInventory(inv, capacity, cropType, quantity) ==
    LET total == getTotalInventoryCount(inv)
        availableSpace == capacity - total
    IN  IF total + quantity > capacity
        THEN IF availableSpace > 0
             THEN [inventory |-> [inv EXCEPT ![cropType] = inv[cropType] + availableSpace], ok |-> FALSE]
             ELSE [inventory |-> inv, ok |-> FALSE]
        ELSE [inventory |-> [inv EXCEPT ![cropType] = inv[cropType] + quantity], ok |-> TRUE]

\* EconomySystem.sellAllOfType
sellAllOfType(m, inv, prices, cropType) ==
    IF inv[cropType] > 0
    THEN LET r == sellCrop(m, inv, prices, cropType, inv[cropType])
         IN  [money |-> r.money, inventory |-> r.inventory, sold |-> inv[cropType]]
    ELSE [money |-> m, inventory |-> inv, sold |-> 0]

\* EconomySystem.sellAllCrops: sellAllOfType over wheat, corn, potato, carrot.
sellAllCrops(m, inv, prices) ==
    LET r1 == sellAllOfType(m, inv, prices, "wheat")
        r2 == sellAllOfType(r1.money, r1.inventory, prices, "corn")
        r3 == sellAllOfType(r2.money, r2.inventory, prices, "potato")
        r4 == sellAllOfType(r3.money, r3.inventory, prices, "carrot")
    IN  [ money |-> r4.money, inventory |-> r4.inventory,
          sold  |-> [wheat |-> r1.sold, corn |-> r2.sold, potato |-> r3.sold, carrot |-> r4.sold] ]

\* Math.round(basePrice * (1 + variation)) with variation = v / 1000,
\* v in -200 .. 199 standing for (Math.random() - 0.5) * 0.4.
roundedPrice(basePrice, v) == (basePrice * (1000 + v) + 500) \div 1000

\* updateMarketPrices with a variation three times as wide
updateMarketPricesWide(draws) ==
    [c \in CropTypes |-> roundedPrice(basePrices[c], 3 * draws[c])]

\* EconomySystem.updateMarketPrices: one draw per crop.
updateMarketPrices(draws) == [c \in CropTypes |-> roundedPrice(basePrices[c], draws[c])]

\* EconomySystem.update
economyUpdate(prices, lpu, deltaTime, draws) ==
    IF lpu + deltaTime >= PriceUpdateInterval
    THEN [marketPrices |-> updateMarketPrices(draws), lastPriceUpdate |-> 0]
    ELSE [marketPrices |-> prices, lastPriceUpdate |-> lpu + deltaTime]

(***************************************************************************)
(* LivestockSystem                                                         *)
(***************************************************************************)
\* LivestockSystem.updateAnimalAge
updateAnimalAge(a, td) ==
    LET currentDay == CASE td.season = "Spring" -> td.day
                        [] td.season = "Summer" -> td.day + 28
                        [] td.season = "Fall"   -> td.day + 56
                        [] OTHER                -> td.day + 84
    IN  IF currentDay > a.age THEN [a EXCEPT !.age = currentDay] ELSE a

\* LivestockSystem.updateAnimalHealth: moody is the outcome of
\* Math.random() < 0.1 for this animal.
updateAnimalHealth(a, td, moody) ==
    LET b == IF a.lastFed < td.day - 1
             THEN [a EXCEPT !.health = Max(0, a.health - 2), !.happiness = Max(0, a.happiness - 5)]
             ELSE a
    IN  IF moody THEN [b EXCEPT !.happiness = Max(0, b.happiness - 1)] ELSE b

\* LivestockSystem.update: moodySet holds the indices of the animals whose
\* random happiness decay fires.
livestockUpdate(as, td, moodySet) ==
    [i \in 1..Len(as) |-> updateAnimalHealth(updateAnimalAge(as[i], td), td, i \in moodySet)]

\* One iteration of the feedAnimals loop; the cash read inside the loop is
\* the cash before the call (the cost is deducted once, after the loop).
feedOne(a, day, m) ==
    IF a.lastFed < day
    THEN IF m >= animalInfo[a.type].dailyUpkeep
         THEN [a EXCEPT !.lastFed = day,
                        !.happiness = Min(100, a.happiness + 20),
                        !.health = Min(100, a.health + 10)]
         ELSE [a EXCEPT !.happiness = Max(0, a.happiness - 10),
                        !.health = Max(0, a.health - 5)]
    ELSE a

RECURSIVE feedTotalCost(_, _, _)
feedTotalCost(as, day, m) ==
    IF as = << >> THEN 0
    ELSE (IF as[1].lastFed < day /\ m >= animalInfo[as[1].type].dailyUpkeep
          THEN animalInfo[as[1].type].dailyUpkeep ELSE 0)
         + feedTotalCost(Tail(as), day, m)

\* LivestockSystem.feedAnimals
feedAnimals(as, day, m) ==
    LET totalCost == feedTotalCost(as, day, m)
    IN  [ animals |-> [i \in 1..Len(as) |-> feedOne(as[i], day, m)],
          money   |-> IF totalCost > 0 THEN setMoney(m - totalCost) ELSE m,
          cost    |-> totalCost ]

\* The animals that may produce: mature, healthy and happy.
canProduce(a) ==
    /\ a.age >= animalInfo[a.type].maturityAge
    /\ a.health > 50
    /\ a.happiness > 30

RECURSIVE productsValue(_, _)
productsValue(as, producers) ==
    IF as = << >> THEN 0
    ELSE (IF Len(as) \in producers THEN animalInfo[as[Len(as)].type].productValue ELSE 0)
         + productsValue(SubSeq(as, 1, Len(as) - 1), producers)

\* LivestockSystem.collectProducts: producers holds the indices of the
\* animals whose draw Math.random() < productionRate succeeds.
collectProducts(as, m, producers) ==
    LET totalValue == productsValue(as, producers)
    IN  [money |-> IF totalValue > 0 THEN setMoney(m + totalValue) ELSE m, value |-> totalValue]

\* The draws collectProducts can make: only animals that may produce draw,
\* and a rate of 1 or more always succeeds.
producerSets(as) ==
    { P \in SUBSET { i \in 1..Len(as) : canProduce(as[i]) } :
        \A i \in 1..Len(as) :
            (canProduce(as[i]) /\ animalInfo[as[i].type].productionRate >= 10) => i \in P }

\* LivestockSystem.purchaseAnimal
\* purchaseAnimal without its cash test
purchaseAnimalOnCredit(as, nextId, m, owned, td, animalType, c) ==
    IF ~ isPositionOnOwnedLand(owned, c) THEN [animals |-> as, nextAnimalId |-> nextId, money |-> m, ok |-> FALSE]
    ELSE [ animals |-> Append(as, [ id |-> nextId, type |-> animalType, position |-> c,
                                    age |-> 0, happiness |-> 100, health |-> 100,
                                    lastFed |-> td.day ]),
           nextAnimalId |-> nextId + 1,
           money |-> setMoney(m - animalInfo[animalType].purchasePrice),
           ok |-> TRUE ]

\* LivestockSystem.purchaseAnimal

purchaseAnimal(as, nextId, m, owned, td, animalType, c) ==
    IF ~ isPositionOnOwnedLand(owned, c) THEN [animals |-> as, nextAnimalId |-> nextId, money |-> m, ok |-> FALSE]
    ELSE IF m < animalInfo[animalType].purchasePrice
         THEN [animals |-> as, nextAnimalId |-> nextId, money |-> m, ok |-> FALSE]
         ELSE [ animals |-> Append(as, [ id |-> nextId, type |-> animalType, position |-> c,
                                         age |-> 0, happiness |-> 100, health |-> 100,
                                         lastFed |-> td.day ]),
                nextAnimalId |-> nextId + 1,
                money |-> setMoney(m - animalInfo[animalType].purchasePrice),
                ok |-> TRUE ]

(***************************************************************************)
(* VehicleSystem                                                           *)
(***************************************************************************)
InitialVehicles == [occupied |-> [v \in VehicleIds |-> FALSE], current |-> NoneId]

\* VehicleSystem.enterVehicle
enterVehicle(vs, vehicleId) ==
    IF vehicleId \notin VehicleIds \/ vs.occupied[vehicleId] THEN vs
    ELSE [occupied |-> [vs.occupied EXCEPT ![vehicleId] = TRUE], current |-> vehicleId]

\* VehicleSystem.exitVehicle
exitVehicle(vs) ==
    IF vs.current = NoneId THEN vs
    ELSE [occupied |-> [vs.occupied EXCEPT ![vs.current] = FALSE], current |-> NoneId]

(***************************************************************************)
(* CropSystem                                                              *)
(***************************************************************************)
\* CropSystem.plantCrop
\* plantCrop without its ownership test
plantCropAnywhere(cs, owned, td, cropType, c) ==
    IF c \in DOMAIN cs THEN [crops |-> cs, ok |-> FALSE]
    ELSE [ crops |-> MapSet(cs, c, [ type |-> cropType, plantedDay |-> td.day,
                                     plantedSeason |-> td.season, growthStage |-> 0 ]),
           ok |-> TRUE ]

plantCrop(cs, owned, td, cropType, c) ==
    IF ~ isPositionOnOwnedLand(owned, c) THEN [crops |-> cs, ok |-> FALSE]
    ELSE IF c \in DOMAIN cs THEN [crops |-> cs, ok |-> FALSE]
    ELSE [ crops |-> MapSet(cs, c, [ type |-> cropType, plantedDay |-> td.day,
                                     plantedSeason |-> td.season, growthStage |-> 0 ]),
           ok |-> TRUE ]

\* The guard of harvestCrop without its stage test
canHarvestAnyStage(cs, c) == c \in DOMAIN cs

\* The guard of CropSystem.harvestCrop: a crop is there and it is mature.
canHarvest(cs, c) == c \in DOMAIN cs /\ cs[c].growthStage >= 3

\* The attachment whose effects the harvest applies: the first of tractor_1,
\* combine_harvester_1 whose effects object is not empty.
harvestAttachment(ownedAtt, va) ==
    IF getAttachmentEffects(ownedAtt, va, "tractor_1") # NoneId
    THEN getAttachmentEffects(ownedAtt, va, "tractor_1")
    ELSE getAttachmentEffects(ownedAtt, va, "combine_harvester_1")

\* The amount CropSystem.harvestCrop returns for a base draw of
\* Math.floor(Math.random() * 3) + 2: floor of base * equipment yield *
\* attachment efficiency * weather yield, at least 1.
harvestAmount(ownedEq, ownedAtt, va, weatherType, baseAmount) ==
    LET ey  == getEquipmentEffects(ownedEq).cropYield
        att == harvestAttachment(ownedAtt, va)
        eff == IF att = NoneId \/ attachmentCatalog[att].efficiency = 0
               THEN 10 ELSE attachmentCatalog[att].efficiency
        wy  == getWeatherYieldMultiplier(weatherType)
        modifiedAmount == (baseAmount * ey[1] * eff * wy) \div (ey[2] * 10 * 100)
    IN  Max(1, modifiedAmount)

\* harvestCrop that returns the yield of a mature crop and leaves the plant
\* in the registry
harvestCropLeavingPlant(cs, ownedEq, ownedAtt, va, weatherType, c, baseAmount) ==
    IF ~ canHarvest(cs, c) THEN [crops |-> cs, type |-> NoneId, amount |-> 0]
    ELSE [ crops  |-> cs,
           type   |-> cs[c].type,
           amount |-> harvestAmount(ownedEq, ownedAtt, va, weatherType, baseAmount) ]

\* CropSystem.harvestCrop; NoneId for the null result.
harvestCrop(cs, ownedEq, ownedAtt, va, weatherType, c, baseAmount) ==
    IF ~ canHarvest(cs, c) THEN [crops |-> cs, type |-> NoneId, amount |-> 0]
    ELSE [ crops  |-> MapDelete(cs, c),
           type   |-> cs[c].type,
           amount |-> harvestAmount(ownedEq, ownedAtt, va, weatherType, baseAmount) ]

\* CropSystem.getSeasonDifference
getSeasonDifference(plantedSeason, currentSeason) ==
    IF seasonIndex(currentSeason) >= seasonIndex(plantedSeason)
    THEN seasonIndex(currentSeason) - seasonIndex(plantedSeason)
    ELSE 4 - seasonIndex(plantedSeason) + seasonIndex(currentSeason)

\* CropSystem.calculateDaysSincePlanted (the year is not part of it)
calculateDaysSincePlanted(crop, td) ==
    IF crop.plantedSeason = td.season THEN td.day - crop.plantedDay
    ELSE getSeasonDifference(crop.plantedSeason, td.season) * 30 + td.day - crop.plantedDay

\* updateCropGrowth with the two middle thresholds left out: a crop is a
\* seedling until it is ripe.
newGrowthStageAllOrNothing(crop, td, weatherType) ==
    IF 4 * calculateDaysSincePlanted(crop, td) * getWeatherGrowthMultiplier(weatherType)
          < 3 * 100 * growthTime[crop.type]
    THEN 0 ELSE 3

\* The stage CropSystem.updateCropGrowth computes: growthProgress =
\* days * weather / growthTime against 0.25, 0.5 and 0.75, on integers.
newGrowthStage(crop, td, weatherType) ==
    LET e == calculateDaysSincePlanted(crop, td) * getWeatherGrowthMultiplier(weatherType)
        g == 100 * growthTime[crop.type]
    IN  IF 4 * e < g THEN 0
        ELSE IF 2 * e < g THEN 1
        ELSE IF 4 * e < 3 * g THEN 2
        ELSE 3

\* CropSystem.update
cropUpdate(cs, td, weatherType) ==
    [c \in DOMAIN cs |-> [cs[c] EXCEPT !.growthStage = newGrowthStage(cs[c], td, weatherType)]]

(***************************************************************************)
(* FieldStateSystem                                                        *)
(***************************************************************************)
FieldStates == {"untilled", "tilled", "planted", "growing", "mature", "harvested", "stubble"}

\* FieldStateSystem.getFieldState; NoneId for null (no record)
getFieldState(fs, c) == IF c \in DOMAIN fs THEN fs[c].state ELSE NoneId

\* FieldStateSystem.updateFieldState; a record created here (createField)
\* carries no cropType, an existing one keeps its cropType unless one is given.
updateFieldState(fs, day, c, newState, cropType) ==
    IF c \notin DOMAIN fs
    THEN MapSet(fs, c, [state |-> newState, lastStateChange |-> day, cropType |-> NoneId])
    ELSE MapSet(fs, c, [ state |-> newState, lastStateChange |-> day,
                         cropType |-> IF cropType # NoneId THEN cropType ELSE fs[c].cropType ])

\* The field state FieldStateSystem.update derives from a crop's stage.
stateOfStage(stage) ==
    IF stage = 0 THEN "planted" ELSE IF stage < 3 THEN "growing" ELSE "mature"

\* FieldStateSystem.update: cells with a crop follow the crop's stage, then
\* growing or mature cells without a crop become harvested.
fieldUpdate(fs, cs, day) ==
    [c \in DOMAIN fs |->
        IF c \in DOMAIN cs
        THEN IF fs[c].state # stateOfStage(cs[c].growthStage)
             THEN [state |-> stateOfStage(cs[c].growthStage), lastStateChange |-> day, cropType |-> cs[c].type]
             ELSE fs[c]
        ELSE IF fs[c].state \in {"mature", "growing"}
             THEN [fs[c] EXCEPT !.state = "harvested", !.lastStateChange = day]
             ELSE fs[c]]

\* The two thresholds of processFieldDecay.
harvestedDecayDays == 2

stubbleDecayDays == 5

\* FieldStateSystem.processFieldDecay
processFieldDecay(fs, day) ==
    [c \in DOMAIN fs |->
        IF fs[c].state = "harvested" /\ day - fs[c].lastStateChange > harvestedDecayDays
        THEN [fs[c] EXCEPT !.state = "stubble", !.lastStateChange = day]
        ELSE IF fs[c].state = "stubble" /\ day - fs[c].lastStateChange > stubbleDecayDays
             THEN [fs[c] EXCEPT !.state = "untilled", !.lastStateChange = day]
             ELSE fs[c]]

(***************************************************************************)
(* Save slices: getSaveData / loadSaveData of each registry.               *)
(* An array of the document is a set of entries where the order is not     *)
(* read back (crops, fields) and a sequence where it is (buildings,        *)
(* animals).  A position is the triple <<x, y, z>> the document stores.    *)
(***************************************************************************)
\* EconomySystem.getSaveData
economyGetSaveData(m, inv, prices, lpu) ==
    [money |-> m, inventory |-> inv, marketPrices |-> prices, lastPriceUpdate |-> lpu]

\* saveData.money || 100000
moneyOrDefault(saved) == IF saved = 0 THEN StartMoney ELSE saved

\* EconomySystem.loadSaveData
economyLoadSaveData(data) ==
    [ money           |-> moneyOrDefault(data.money),
      inventory       |-> [c \in CropTypes |-> data.inventory[c]],
      marketPrices    |-> data.marketPrices,
      lastPriceUpdate |-> data.lastPriceUpdate ]

\* CropSystem.getSaveData
cropsGetSaveData(cs) ==
    { [ type |-> cs[c].type, plantedDay |-> cs[c].plantedDay,
        plantedSeason |-> cs[c].plantedSeason, growthStage |-> cs[c].growthStage,
        position |-> <<c[1], GridY, c[2]>> ] : c \in DOMAIN cs }

\* loadSaveData rebuilding every crop as a seedling
cropsLoadSaveDataAsSeedlings(data) ==
    [ c \in { <<e.position[1], e.position[3]>> : e \in data } |->
        LET e == CHOOSE x \in data : <<x.position[1], x.position[3]>> = c
        IN  [ type |-> e.type, plantedDay |-> e.plantedDay,
              plantedSeason |-> e.plantedSeason, growthStage |-> 0 ] ]

\* CropSystem.loadSaveData: the registry is cleared and rebuilt, each entry
\* under the key made of its position's x and z.
cropsLoadSaveData(data) ==
    [ c \in { <<e.position[1], e.position[3]>> : e \in data } |->
        LET e == CHOOSE x \in data : <<x.position[1], x.position[3]>> = c
        IN  [ type |-> e.type, plantedDay |-> e.plantedDay,
              plantedSeason |-> e.plantedSeason, growthStage |-> e.growthStage ] ]

\* FieldStateSystem.getSaveData
fieldsGetSaveData(fs) ==
    { [ position |-> <<c[1], GridY, c[2]>>, state |-> fs[c].state,
        cropType |-> fs[c].cropType, lastStateChange |-> fs[c].lastStateChange ] : c \in DOMAIN fs }

\* FieldStateSystem.loadSaveData
fieldsLoadSaveData(data) ==
    [ c \in { <<e.position[1], e.position[3]>> : e \in data } |->
        LET e == CHOOSE x \in data : <<x.position[1], x.position[3]>> = c
        IN  [state |-> e.state, lastStateChange |-> e.lastStateChange, cropType |-> e.cropType] ]

\* FarmExpansionSystem.getSaveData
plotsGetSaveData(owned) == [ownedPlots |-> { p \in PlotIds : p \in owned }]

\* loadSaveData without the starter-plot branch
plotsLoadSaveDataAsListed(data) == { p \in PlotIds : p \in data.ownedPlots }

\* FarmExpansionSystem.loadSaveData: the starter plot is always owned.
plotsLoadSaveData(data) ==
    { p \in PlotIds : p = "starter_plot" \/ p \in data.ownedPlots }

\* BuildingSystem.getSaveData
buildingsGetSaveData(blds) ==
    [ placedBuildings |->
        [ i \in 1..Len(blds) |->
            [ id |-> blds[i].id,
              position |-> <<blds[i].position[1], GridY, blds[i].position[2]>>,
              dimensions |-> [x |-> blds[i].dimensions[1], y |-> blds[i].dimensions[2], z |-> blds[i].dimensions[3]] ] ] ]

\* BuildingSystem.loadSaveData
buildingsLoadSaveData(data) ==
    [ i \in 1..Len(data.placedBuildings) |->
        [ id |-> data.placedBuildings[i].id,
          position |-> <<data.placedBuildings[i].position[1], data.placedBuildings[i].position[3]>>,
          dimensions |-> << data.placedBuildings[i].dimensions.x,
                            data.placedBuildings[i].dimensions.y,
                            data.placedBuildings[i].dimensions.z >> ] ]

\* EquipmentSystem.getSaveData
equipmentGetSaveData(owned) == [ownedEquipment |-> owned]

\* EquipmentSystem.loadSaveData: cleared, basic_hoe re-added, then the saved ids.
equipmentLoadSaveData(data) == {"basic_hoe"} \cup data.ownedEquipment

\* AttachmentSystem.getSaveData
attachmentsGetSaveData(ownedAtt, va) ==
    [ ownedAttachments   |-> ownedAtt,
      vehicleAttachments |-> { [vehicleId |-> v, currentAttachment |-> va[v]] : v \in { x \in VehicleIds : va[x] # NoneId } } ]

\* AttachmentSystem.loadSaveData
attachmentsLoadSaveData(data) ==
    [ owned |-> { a \in AttachmentIds : a \in data.ownedAttachments },
      va    |-> [ v \in VehicleIds |->
                    IF \E e \in data.vehicleAttachments : e.vehicleId = v /\ e.currentAttachment # NoneId
                    THEN (CHOOSE e \in data.vehicleAttachments : e.vehicleId = v /\ e.currentAttachment # NoneId).currentAttachment
                    ELSE NoneId ] ]

\* The text of an animal id and the number parsed back from it:
\* `animal_${n}` and parseInt(id.replace('animal_', '')).
animalIdText(n) == <<"animal_", n>>

animalIdNumber(text) == text[2]

\* LivestockSystem.getSaveData
livestockGetSaveData(as) ==
    [ animals |->
        [ i \in 1..Len(as) |->
            [ id |-> animalIdText(as[i].id), type |-> as[i].type,
              position |-> <<as[i].position[1], GridY, as[i].position[2]>>,
              age |-> as[i].age, happiness |-> as[i].happiness,
              health |-> as[i].health, lastFed |-> as[i].lastFed ] ] ]

RECURSIVE maxAnimalId(_)
maxAnimalId(saved) ==
    IF saved = << >> THEN 0
    ELSE Max(animalIdNumber(saved[1].id), maxAnimalId(Tail(saved)))

\* LivestockSystem.loadSaveData
livestockLoadSaveData(data) ==
    [ animals |->
        [ i \in 1..Len(data.animals) |->
            [ id |-> animalIdNumber(data.animals[i].id), type |-> data.animals[i].type,
              position |-> <<data.animals[i].position[1], data.animals[i].position[3]>>,
              age |-> data.animals[i].age, happiness |-> data.animals[i].happiness,
              health |-> data.animals[i].health, lastFed |-> data.animals[i].lastFed ] ],
      nextAnimalId |-> maxAnimalId(data.animals) + 1 ]

\* VehicleSystem.getSaveData
vehiclesGetSaveData(vs) ==
    [isInVehicle |-> vs.current # NoneId, currentVehicleId |-> vs.current, vehicles |-> vs.occupied]

\* VehicleSystem.loadSaveData: leaves the current vehicle, restores each
\* isOccupied flag, then tries to re-enter the saved vehicle.
vehiclesLoadSaveData(vs, data) ==
    LET restored == [occupied |-> data.vehicles, current |-> NoneId]
    IN  IF data.isInVehicle /\ data.currentVehicleId # NoneId
        THEN enterVehicle(restored, data.currentVehicleId)
        ELSE restored

\* TimeSystem.getSaveData / loadSaveData
timeGetSaveData(td) == td

timeLoadSaveData(data) == data

\* WeatherSystem.getSaveData / loadSaveData
weatherGetSaveData(w) == [type |-> w.type, weatherChangeTimer |-> w.timer]

weatherLoadSaveData(data) == [type |-> data.type, timer |-> data.weatherChangeTimer]

(***************************************************************************)
(* SaveManager and Game.saveGame / Game.loadGame                           *)
(***************************************************************************)
SaveVersion == "1.0.0"

\* The slices of a document that may be missing from what localStorage
\* holds (an older or a damaged document).
SliceNames == { "economyData", "cropsData", "vehicleData", "equipmentData",
                "farmExpansionData", "buildingData", "livestockData",
                "fieldStateData", "attachmentData", "playerPosition" }

\* localStorage without the item, and an item JSON.parse rejects.
NoDocument == [kind |-> "none"]

Unparsable == [kind |-> "garbage"]

\* The live state of every registry, as one record.
liveState ==
    [ timeData |-> timeData, weather |-> weather, money |-> money, inventory |-> inventory,
      marketPrices |-> marketPrices, lastPriceUpdate |-> lastPriceUpdate, crops |-> crops,
      fields |-> fields, ownedPlots |-> ownedPlots, placedBuildings |-> placedBuildings,
      ownedEquipment |-> ownedEquipment, ownedAttachments |-> ownedAttachments,
      vehicleAttachments |-> vehicleAttachments, vehicles |-> vehicles,
      animals |-> animals, nextAnimalId |-> nextAnimalId, thrown |-> FALSE ]

\* Game.saveGame: the document built from the registries g and written by
\* SaveManager.saveGame (JSON.stringify / JSON.parse keep these values).
documentOf(g) ==
    [ kind              |-> "doc",
      version           |-> SaveVersion,
      present           |-> SliceNames,
      timeData          |-> timeGetSaveData(g.timeData),
      economyData       |-> economyGetSaveData(g.money, g.inventory, g.marketPrices, g.lastPriceUpdate),
      cropsData         |-> cropsGetSaveData(g.crops),
      weatherData       |-> weatherGetSaveData(g.weather),
      vehicleData       |-> vehiclesGetSaveData(g.vehicles),
      equipmentData     |-> equipmentGetSaveData(g.ownedEquipment),
      farmExpansionData |-> plotsGetSaveData(g.ownedPlots),
      buildingData      |-> buildingsGetSaveData(g.placedBuildings),
      livestockData     |-> livestockGetSaveData(g.animals),
      fieldStateData    |-> fieldsGetSaveData(g.fields),
      attachmentData    |-> attachmentsGetSaveData(g.ownedAttachments, g.vehicleAttachments) ]

\* The steps of Game.loadGame, in its order.  A step whose slice is
\* undefined throws where the loader first dereferences it; what the loader
\* did before that point stays done.
loadTime(g, doc) == [g EXCEPT !.timeData = timeLoadSaveData(doc.timeData)]

loadEconomy(g, doc) ==
    IF "economyData" \notin doc.present THEN [g EXCEPT !.thrown = TRUE]
    ELSE LET e == economyLoadSaveData(doc.economyData)
         IN  [g EXCEPT !.money = e.money, !.inventory = e.inventory,
                       !.marketPrices = e.marketPrices, !.lastPriceUpdate = e.lastPriceUpdate]

loadCrops(g, doc) ==
    IF "cropsData" \notin doc.present THEN [g EXCEPT !.crops = EmptyMap, !.thrown = TRUE]
    ELSE [g EXCEPT !.crops = cropsLoadSaveData(doc.cropsData)]

loadWeather(g, doc) == [g EXCEPT !.weather = weatherLoadSaveData(doc.weatherData)]

loadVehicles(g, doc) ==
    IF "vehicleData" \notin doc.present
    THEN [g EXCEPT !.vehicles = exitVehicle(g.vehicles), !.thrown = TRUE]
    ELSE [g EXCEPT !.vehicles = vehiclesLoadSaveData(g.vehicles, doc.vehicleData)]

loadEquipment(g, doc) ==
    IF "equipmentData" \notin doc.present
    THEN [g EXCEPT !.ownedEquipment = {"basic_hoe"}, !.thrown = TRUE]
    ELSE [g EXCEPT !.ownedEquipment = equipmentLoadSaveData(doc.equipmentData)]

loadPlots(g, doc) ==
    IF "farmExpansionData" \notin doc.present THEN g
    ELSE [g EXCEPT !.ownedPlots = plotsLoadSaveData(doc.farmExpansionData)]

loadBuildings(g, doc) ==
    IF "buildingData" \notin doc.present THEN g
    ELSE [g EXCEPT !.placedBuildings = buildingsLoadSaveData(doc.buildingData)]

loadLivestock(g, doc) ==
    IF "livestockData" \notin doc.present THEN g
    ELSE LET l == livestockLoadSaveData(doc.livestockData)
         IN  [g EXCEPT !.animals = l.animals, !.nextAnimalId = l.nextAnimalId]

loadFields(g, doc) ==
    IF "fieldStateData" \notin doc.present THEN g
    ELSE [g EXCEPT !.fields = fieldsLoadSaveData(doc.fieldStateData)]

loadAttachments(g, doc) ==
    IF "attachmentData" \notin doc.present THEN g
    ELSE LET a == attachmentsLoadSaveData(doc.attachmentData)
         IN  [g EXCEPT !.ownedAttachments = a.owned, !.vehicleAttachments = a.va]

\* SaveManager.objectToVector3(saveData.playerPosition)
restoreCamera(g, doc) ==
    IF "playerPosition" \notin doc.present THEN [g EXCEPT !.thrown = TRUE] ELSE g

\* The try block of Game.loadGame on a parsed document: a step runs only if
\* no earlier step has thrown.  Each stage is the set holding the one state
\* the steps so far have produced.
loadDocument(g, doc) ==
    LET s1  == { loadTime(x, doc) : x \in {g} }
        s2  == { IF x.thrown THEN x ELSE loadEconomy(x, doc) : x \in s1 }
        s3  == { IF x.thrown THEN x ELSE loadCrops(x, doc) : x \in s2 }
        s4  == { IF x.thrown THEN x ELSE loadWeather(x, doc) : x \in s3 }
        s5  == { IF x.thrown THEN x ELSE loadVehicles(x, doc) : x \in s4 }
        s6  == { IF x.thrown THEN x ELSE loadEquipment(x, doc) : x \in s5 }
        s7  == { IF x.thrown THEN x ELSE loadPlots(x, doc) : x \in s6 }
        s8  == { IF x.thrown THEN x ELSE loadBuildings(x, doc) : x \in s7 }
        s9  == { IF x.thrown THEN x ELSE loadLivestock(x, doc) : x \in s8 }
        s10 == { IF x.thrown THEN x ELSE loadFields(x, doc) : x \in s9 }
        s11 == { IF x.thrown THEN x ELSE loadAttachments(x, doc) : x \in s10 }
        s12 == { IF x.thrown THEN x ELSE restoreCamera(x, doc) : x \in s11 }
    IN  CHOOSE r \in s12 : TRUE

(***************************************************************************)
(* Initial state: the registries as their constructors and initialize()    *)
(* leave them, localStorage empty (the start-up auto-load finds nothing).  *)
(***************************************************************************)
NoCell == <<0, 0>>

Init ==
    /\ money = StartMoney
    /\ inventory = InitialInventory
    /\ marketPrices = basePrices
    /\ lastPriceUpdate = 0
    /\ timeData = InitialTimeData
    /\ weather = InitialWeather
    /\ crops = EmptyMap
    /\ fields = EmptyMap
    /\ ownedPlots = InitialOwnedPlots
    /\ placedBuildings = << >>
    /\ ownedEquipment = InitialOwnedEquipment
    /\ ownedAttachments = {}
    /\ vehicleAttachments = InitialVehicleAttachments
    /\ vehicles = InitialVehicles
    /\ animals = << >>
    /\ nextAnimalId = 1
    /\ storage = NoDocument
    /\ isPaused = FALSE
    /\ last = [op |-> "init", cell |-> NoCell, type |-> NoneId, amount |-> 0, ok |-> TRUE]
    /\ harvestLog = EmptyMap
    /\ ops = 0

\* Every operation records itself: name, cell and type arguments, a number
\* (an amount asked for or returned) and its boolean result.
Did(op, cell, type, amount, ok) ==
    /\ last' = [op |-> op, cell |-> cell, type |-> type, amount |-> amount, ok |-> ok]
    /\ ops' = ops + 1

(***************************************************************************)
(* EconomySystem operations                                                *)
(***************************************************************************)
BuySeeds(cropType, quantity) ==
    LET r == buySeeds(money, cropType, quantity)
    IN  /\ money' = r.money
        /\ Did("buySeeds", NoCell, cropType, quantity, r.ok)
        /\ UNCHANGED << inventory, marketPrices, lastPriceUpdate, clockVars, farmVars,
                        registryVars, livestockVars, storage, isPaused, harvestLog >>

SellCrop(cropType, quantity) ==
    LET r == sellCrop(money, inventory, marketPrices, cropType, quantity)
    IN  /\ money' = r.money
        /\ inventory' = r.inventory
        /\ Did("sellCrop", NoCell, cropType, quantity, r.ok)
        /\ UNCHANGED << marketPrices, lastPriceUpdate, clockVars, farmVars,
                        registryVars, livestockVars, storage, isPaused, harvestLog >>

SellAllOfType(cropType) ==
    LET r == sellAllOfType(money, inventory, marketPrices, cropType)
    IN  /\ money' = r.money
        /\ inventory' = r.inventory
        /\ Did("sellAllOfType", NoCell, cropType, r.sold, TRUE)
        /\ UNCHANGED << marketPrices, lastPriceUpdate, clockVars, farmVars,
                        registryVars, livestockVars, storage, isPaused, harvestLog >>

SellAllCrops ==
    LET r == sellAllCrops(money, inventory, marketPrices)
    IN  /\ money' = r.money
        /\ inventory' = r.inventory
        /\ Did("sellAllCrops", NoCell, NoneId, getTotalInventoryCount(r.sold), TRUE)
        /\ UNCHANGED << marketPrices, lastPriceUpdate, clockVars, farmVars,
                        registryVars, livestockVars, storage, isPaused, harvestLog >>

SetMoney(amount) ==
    /\ money' = setMoney(amount)
    /\ Did("setMoney", NoCell, NoneId, amount, TRUE)
    /\ UNCHANGED << inventory, marketPrices, lastPriceUpdate, clockVars, farmVars,
                    registryVars, livestockVars, storage, isPaused, harvestLog >>

AddToInventory(cropType, quantity) ==
    LET r == addToInventory(inventory, getStorageCapacity(ownedEquipment, placedBuildings), cropType, quantity)
    IN  /\ inventory' = r.inventory
        /\ Did("addToInventory", NoCell, cropType, quantity, r.ok)
        /\ UNCHANGED << money, marketPrices, lastPriceUpdate, clockVars, farmVars,
                        registryVars, livestockVars, storage, isPaused, harvestLog >>

(***************************************************************************)
(* Purchases: land, buildings, equipment, attachments, animals             *)
(***************************************************************************)
\* InputManager.purchasePlot (a click on a for-sale sign)
PurchasePlot(plotId) ==
    LET bought == plotId \notin ownedPlots /\ money >= plotCatalog[plotId].price
    IN  /\ money' = IF bought THEN setMoney(money - plotCatalog[plotId].price) ELSE money
        /\ ownedPlots' = IF bought THEN purchasePlot(ownedPlots, plotId) ELSE ownedPlots
        /\ Did("purchasePlot", NoCell, plotId, plotCatalog[plotId].price, bought)
        /\ UNCHANGED << inventory, marketPrices, lastPriceUpdate, clockVars, farmVars,
                        placedBuildings, ownedEquipment, ownedAttachments, vehicleAttachments,
                        vehicles, livestockVars, storage, isPaused, harvestLog >>

\* InputManager.handleInteraction in build mode
PlaceBuilding(id, c) ==
    LET isValidPlacement == /\ isPositionOnOwnedLand(ownedPlots, c)
                            /\ ~ isPositionOccupied(placedBuildings, c, buildingCatalog[id].dimensions)
        bought == isValidPlacement /\ money >= buildingCatalog[id].price
    IN  /\ money' = IF bought THEN setMoney(money - buildingCatalog[id].price) ELSE money
        /\ placedBuildings' = IF bought THEN placeBuilding(placedBuildings, id, c) ELSE placedBuildings
        /\ Did("placeBuilding", c, id, buildingCatalog[id].price, bought)
        /\ UNCHANGED << inventory, marketPrices, lastPriceUpdate, clockVars, farmVars,
                        ownedPlots, ownedEquipment, ownedAttachments, vehicleAttachments,
                        vehicles, livestockVars, storage, isPaused, harvestLog >>

\* Game.purchaseEquipment
PurchaseEquipment(e) ==
    LET bought == e \notin ownedEquipment /\ money >= equipmentCatalog[e].price
    IN  /\ money' = IF bought THEN setMoney(money - equipmentCatalog[e].price) ELSE money
        /\ ownedEquipment' = IF bought THEN purchaseEquipment(ownedEquipment, e) ELSE ownedEquipment
        /\ Did("purchaseEquipment", NoCell, e, equipmentCatalog[e].price, bought)
        /\ UNCHANGED << inventory, marketPrices, lastPriceUpdate, clockVars, farmVars,
                        ownedPlots, placedBuildings, ownedAttachments, vehicleAttachments,
                        vehicles, livestockVars, storage, isPaused, harvestLog >>

\* UIManager.purchaseAttachment
PurchaseAttachment(a) ==
    LET bought == a \notin ownedAttachments /\ money >= attachmentCatalog[a].price
        r == purchaseAttachment(ownedAttachments, vehicleAttachments, a)
    IN  /\ money' = IF bought THEN setMoney(money - attachmentCatalog[a].price) ELSE money
        /\ ownedAttachments' = IF bought THEN r.owned ELSE ownedAttachments
        /\ vehicleAttachments' = IF bought THEN r.va ELSE vehicleAttachments
        /\ Did("purchaseAttachment", NoCell, a, attachmentCatalog[a].price, bought)
        /\ UNCHANGED << inventory, marketPrices, lastPriceUpdate, clockVars, farmVars,
                        ownedPlots, placedBuildings, ownedEquipment,
                        vehicles, livestockVars, storage, isPaused, harvestLog >>

\* InputManager.handleInteraction in animal mode
PurchaseAnimal(animalType, c) ==
    LET r == purchaseAnimal(animals, nextAnimalId, money, ownedPlots, timeData, animalType, c)
    IN  /\ money' = r.money
        /\ animals' = r.animals
        /\ nextAnimalId' = r.nextAnimalId
        /\ Did("purchaseAnimal", c, animalType, animalInfo[animalType].purchasePrice, r.ok)
        /\ UNCHANGED << inventory, marketPrices, lastPriceUpdate, clockVars, farmVars,
                        registryVars, storage, isPaused, harvestLog >>

\* InputManager.feedAnimals
FeedAnimals ==
    LET r == feedAnimals(animals, timeData.day, money)
    IN  /\ money' = r.money
        /\ animals' = r.animals
        /\ Did("feedAnimals", NoCell, NoneId, r.cost, TRUE)
        /\ UNCHANGED << inventory, marketPrices, lastPriceUpdate, clockVars, farmVars,
                        registryVars, nextAnimalId, storage, isPaused, harvestLog >>

\* InputManager.collectProducts
CollectProducts(producers) ==
    LET r == collectProducts(animals, money, producers)
    IN  /\ money' = r.money
        /\ Did("collectProducts", NoCell, NoneId, r.value, TRUE)
        /\ UNCHANGED << inventory, marketPrices, lastPriceUpdate, clockVars, farmVars,
                        registryVars, livestockVars, storage, isPaused, harvestLog >>

(***************************************************************************)
(* CropSystem operations, called directly                                  *)
(***************************************************************************)
PlantCrop(cropType, c) ==
    LET r == plantCrop(crops, ownedPlots, timeData, cropType, c)
    IN  /\ crops' = r.crops
        /\ Did("plantCrop", c, cropType, 0, r.ok)
        /\ UNCHANGED << economyVars, clockVars, fields, registryVars, livestockVars,
                        storage, isPaused, harvestLog >>

\* baseAmount is the draw Math.floor(Math.random() * 3) + 2.
HarvestCrop(c, baseAmount) ==
    LET r == harvestCrop(crops, ownedEquipment, ownedAttachments, vehicleAttachments,
                         weather.type, c, baseAmount)
    IN  /\ crops' = r.crops
        /\ Did("harvestCrop", c, r.type, r.amount, r.type # NoneId)
        /\ UNCHANGED << economyVars, clockVars, fields, registryVars, livestockVars,
                        storage, isPaused, harvestLog >>

(***************************************************************************)
(* Farming commands of the InputManager (outside interaction cooldown)     *)
(***************************************************************************)
\* The workingArea the commands read from the current vehicle's attachment
\* ((attachmentEffects as any).workingArea || 1).
workingAreaOf(vs, ownedAtt, va) ==
    IF vs.current = NoneId THEN 1
    ELSE IF getAttachmentEffects(ownedAtt, va, vs.current) = NoneId THEN 1
    ELSE attachmentCatalog[getAttachmentEffects(ownedAtt, va, vs.current)].workingArea

\* InputManager.getPlantingPositions: the square of half-width
\* floor(workingArea / 2) around the centre, x outer loop, z inner loop.
getPlantingPositions(c, workingArea) ==
    LET halfArea == workingArea \div 2
        n == 2 * halfArea + 1
    IN  [ i \in 1..(n * n) |->
            << c[1] + 2 * (((i - 1) \div n) - halfArea),
               c[2] + 2 * (((i - 1) % n) - halfArea) >> ]

\* The plant loop without its per-position test
positionAccepted(fs, p) == TRUE

\* The per-position test of the plant loop.
positionIsTilled(fs, p) == getFieldState(fs, p) = "tilled"

\* The plant loop of handleInteraction over the remaining positions; st
\* carries the cash, the crops, the fields and the number planted.
RECURSIVE plantAll(_, _, _, _, _)
plantAll(positions, st, owned, td, cropType) ==
    IF positions = << >> THEN st
    ELSE LET p == Head(positions)
             b == buySeeds(st.money, cropType, 1)
             pl == plantCrop(st.crops, owned, td, cropType, p)
             next ==
                IF ~ positionIsTilled(st.fields, p) THEN st
                ELSE IF p \in DOMAIN st.crops \/ ~ isPositionOnOwnedLand(owned, p) THEN st
                ELSE IF ~ b.ok THEN st
                ELSE IF ~ pl.ok THEN [st EXCEPT !.money = b.money]
                ELSE [ money   |-> b.money,
                       crops   |-> pl.crops,
                       fields  |-> updateFieldState(st.fields, td.day, p, "planted", cropType),
                       planted |-> st.planted + 1 ]
         IN  plantAll(Tail(positions), next, owned, td, cropType)

\* The state check of handleTilling left out
tillableAnyState(fs, p) == TRUE

\* The states handleTilling accepts: untilled, stubble or no record.
tillable(fs, p) == getFieldState(fs, p) \in {"untilled", "stubble", NoneId}

\* The tilling loop of handleTilling.
RECURSIVE tillAll(_, _, _, _)
tillAll(positions, fs, cs, day) ==
    IF positions = << >> THEN fs
    ELSE LET p == Head(positions)
         IN  tillAll(Tail(positions),
                     IF p \in DOMAIN cs \/ ~ tillable(fs, p) THEN fs
                     ELSE updateFieldState(fs, day, p, "tilled", NoneId),
                     cs, day)

\* The cells of a map whose entry differs between two versions of it.
changedCells(old, new) ==
    { c \in (DOMAIN old) \cup (DOMAIN new) :
        c \notin DOMAIN old \/ c \notin DOMAIN new \/ old[c] # new[c] }

\* The harvest log without the cells a command has touched.
forget(log, cells) == [c \in (DOMAIN log) \ cells |-> log[c]]

\* The harvest branch with the crop left on the field when the store has no
\* room for the whole yield
HarvestIfRoom(c, baseAmount) ==
    LET r == harvestCrop(crops, ownedEquipment, ownedAttachments, vehicleAttachments,
                         weather.type, c, baseAmount)
        stored == addToInventory(inventory, getStorageCapacity(ownedEquipment, placedBuildings),
                                 r.type, r.amount)
        harvested == r.type # NoneId /\ stored.ok
    IN  /\ c \in DOMAIN crops
        /\ crops' = IF harvested THEN r.crops ELSE crops
        /\ inventory' = IF harvested THEN stored.inventory ELSE inventory
        /\ fields' = IF harvested THEN updateFieldState(fields, timeData.day, c, "harvested", NoneId)
                     ELSE fields
        /\ harvestLog' = IF harvested THEN MapSet(harvestLog, c, timeData) ELSE harvestLog
        /\ Did("harvest", c, r.type, r.amount, harvested)
        /\ UNCHANGED << money, marketPrices, lastPriceUpdate, clockVars, registryVars,
                        livestockVars, storage, isPaused >>

\* InputManager.handleInteraction on a picked cell, harvest branch
Harvest(c, baseAmount) ==
    LET r == harvestCrop(crops, ownedEquipment, ownedAttachments, vehicleAttachments,
                         weather.type, c, baseAmount)
        harvested == r.type # NoneId
        stored == addToInventory(inventory, getStorageCapacity(ownedEquipment, placedBuildings),
                                 r.type, r.amount)
    IN  /\ c \in DOMAIN crops
        /\ crops' = r.crops
        /\ inventory' = IF harvested THEN stored.inventory ELSE inventory
        /\ fields' = IF harvested THEN updateFieldState(fields, timeData.day, c, "harvested", NoneId)
                     ELSE fields
        /\ harvestLog' = IF harvested THEN MapSet(harvestLog, c, timeData) ELSE harvestLog
        /\ Did("harvest", c, r.type, r.amount, harvested)
        /\ UNCHANGED << money, marketPrices, lastPriceUpdate, clockVars, registryVars,
                        livestockVars, storage, isPaused >>

\* The plant branch without the gate on the cost of the whole neighbourhood:
\* each position buys its own seed.
PlantWhatCashBuys(c, cropType) ==
    LET positions == getPlantingPositions(c, workingAreaOf(vehicles, ownedAttachments, vehicleAttachments))
        st0 == [money |-> money, crops |-> crops, fields |-> fields, planted |-> 0]
        st == IF getFieldState(fields, c) # "tilled" THEN st0
              ELSE plantAll(positions, st0, ownedPlots, timeData, cropType)
    IN  /\ c \notin DOMAIN crops
        /\ money' = st.money
        /\ crops' = st.crops
        /\ fields' = st.fields
        /\ harvestLog' = forget(harvestLog, changedCells(fields, st.fields))
        /\ Did("plant", c, cropType, st.planted, st.planted > 0)
        /\ UNCHANGED << inventory, marketPrices, lastPriceUpdate, clockVars, registryVars,
                        livestockVars, storage, isPaused >>

\* InputManager.handleInteraction on a picked cell, plant branch
Plant(c, cropType) ==
    LET positions == getPlantingPositions(c, workingAreaOf(vehicles, ownedAttachments, vehicleAttachments))
        totalSeedCost == seedPrices[cropType] * Len(positions)
        st0 == [money |-> money, crops |-> crops, fields |-> fields, planted |-> 0]
        st == IF getFieldState(fields, c) # "tilled" THEN st0
              ELSE IF money >= totalSeedCost
                   THEN plantAll(positions, st0, ownedPlots, timeData, cropType)
                   ELSE st0
    IN  /\ c \notin DOMAIN crops
        /\ money' = st.money
        /\ crops' = st.crops
        /\ fields' = st.fields
        /\ harvestLog' = forget(harvestLog, changedCells(fields, st.fields))
        /\ Did("plant", c, cropType, st.planted, st.planted > 0)
        /\ UNCHANGED << inventory, marketPrices, lastPriceUpdate, clockVars, registryVars,
                        livestockVars, storage, isPaused >>

\* InputManager.handleTilling on a picked cell
Till(c) ==
    LET positions == getPlantingPositions(c, workingAreaOf(vehicles, ownedAttachments, vehicleAttachments))
        fs == IF c \in DOMAIN crops \/ ~ tillable(fields, c) THEN fields
              ELSE tillAll(positions, fields, crops, timeData.day)
    IN  /\ fields' = fs
        /\ harvestLog' = forget(harvestLog, changedCells(fields, fs))
        /\ Did("till", c, NoneId, Cardinality(changedCells(fields, fs)), fs # fields)
        /\ UNCHANGED << economyVars, clockVars, crops, registryVars, livestockVars,
                        storage, isPaused >>

\* InputManager.handleVehicleInteraction; v is the nearest vehicle in range.
ToggleVehicle(v) ==
    /\ vehicles' = IF vehicles.current # NoneId THEN exitVehicle(vehicles) ELSE enterVehicle(vehicles, v)
    /\ Did("vehicle", NoCell, v, 0, TRUE)
    /\ UNCHANGED << economyVars, clockVars, farmVars, ownedPlots, placedBuildings, ownedEquipment,
                    ownedAttachments, vehicleAttachments, livestockVars, storage, isPaused,
                    harvestLog >>

(***************************************************************************)
(* Game.update: one frame                                                  *)
(***************************************************************************)
\* Game.update with the crops and the fields brought up to date before the
\* clock and the weather: growth, derivation and decay see the day and the
\* weather of the previous frame.
afterUpdateFarmFirst(g, deltaTime, drawnWeather, priceDraws, moodySet) ==
    LET td == timeUpdate(g.timeData, deltaTime)
        w  == weatherUpdate(g.weather, deltaTime, drawnWeather)
        e  == economyUpdate(g.marketPrices, g.lastPriceUpdate, deltaTime, priceDraws)
        la == livestockUpdate(g.animals, td, moodySet)
        cs == cropUpdate(g.crops, g.timeData, g.weather.type)
        fs == processFieldDecay(fieldUpdate(g.fields, cs, g.timeData.day), g.timeData.day)
    IN  [g EXCEPT !.timeData = td, !.weather = w, !.marketPrices = e.marketPrices,
                  !.lastPriceUpdate = e.lastPriceUpdate, !.animals = la,
                  !.crops = cs, !.fields = fs]

\* The registries after one unpaused frame of deltaTime seconds, in the
\* order of Game.update: clock, weather, price timer, (vehicles: no modelled
\* state), livestock, crop growth, field derivation, field decay.
afterUpdate(g, deltaTime, drawnWeather, priceDraws, moodySet) ==
    LET td == timeUpdate(g.timeData, deltaTime)
        w  == weatherUpdate(g.weather, deltaTime, drawnWeather)
        e  == economyUpdate(g.marketPrices, g.lastPriceUpdate, deltaTime, priceDraws)
        la == livestockUpdate(g.animals, td, moodySet)
        cs == cropUpdate(g.crops, td, w.type)
        fs == processFieldDecay(fieldUpdate(g.fields, cs, td.day), td.day)
    IN  [g EXCEPT !.timeData = td, !.weather = w, !.marketPrices = e.marketPrices,
                  !.lastPriceUpdate = e.lastPriceUpdate, !.animals = la,
                  !.crops = cs, !.fields = fs]

\* Game.update without its first statement
updateNeverSkipped(paused) == FALSE

\* The first statement of Game.update: if (this.isPaused) return.
updateSkipped(paused) == paused

\* Game.update.  Nothing moves while paused.  autosave tells whether
\* handleAutoSave finds five minutes of wall-clock time elapsed.
Tick(deltaTime, drawnWeather, priceDraws, moodySet, autosave) ==
    LET g == IF updateSkipped(isPaused) THEN liveState
             ELSE afterUpdate(liveState, deltaTime, drawnWeather, priceDraws, moodySet)
    IN  /\ timeData' = g.timeData
        /\ weather' = g.weather
        /\ marketPrices' = g.marketPrices
        /\ lastPriceUpdate' = g.lastPriceUpdate
        /\ animals' = g.animals
        /\ crops' = g.crops
        /\ fields' = g.fields
        /\ storage' = IF ~ updateSkipped(isPaused) /\ autosave THEN documentOf(g) ELSE storage
        /\ Did("tick", NoCell, NoneId, deltaTime, ~ updateSkipped(isPaused))
        /\ UNCHANGED << money, inventory, registryVars, nextAnimalId, isPaused, harvestLog >>

\* Game.togglePause
TogglePause ==
    /\ isPaused' = ~ isPaused
    /\ Did("togglePause", NoCell, NoneId, 0, TRUE)
    /\ UNCHANGED << economyVars, clockVars, farmVars, registryVars, livestockVars,
                    storage, harvestLog >>

\* VehicleSystem.initialize on a running game: createTractor and
\* createCombineHarvester put fresh, unoccupied vehicles into the map;
\* currentVehicle is not assigned.
vehiclesInitialize(vs) == [occupied |-> [v \in VehicleIds |-> FALSE], current |-> vs.current]

\* EquipmentSystem.initialize: ownedEquipment.add('basic_hoe').
equipmentInitialize(owned) == owned \cup {"basic_hoe"}

\* Game.restartGame: initialize() of every system, then the pause flag.
\* The initialize() of the clock, the weather, the ledger, the attachments,
\* the plots, the buildings, the animals, the crops and the fields assigns
\* none of their registries.
RestartGame ==
    /\ vehicles' = vehiclesInitialize(vehicles)
    /\ ownedEquipment' = equipmentInitialize(ownedEquipment)
    /\ isPaused' = FALSE
    /\ Did("restartGame", NoCell, NoneId, 0, TRUE)
    /\ UNCHANGED << economyVars, clockVars, farmVars, ownedPlots, placedBuildings,
                    ownedAttachments, vehicleAttachments, livestockVars, storage,
                    harvestLog >>

(***************************************************************************)
(* Save and load                                                           *)
(***************************************************************************)
\* Game.saveGame
SaveGame ==
    /\ storage' = documentOf(liveState)
    /\ Did("saveGame", NoCell, NoneId, 0, TRUE)
    /\ UNCHANGED << economyVars, clockVars, farmVars, registryVars, livestockVars,
                    isPaused, harvestLog >>

\* What localStorage may hold without the game having written it: nothing,
\* an unparsable text, or the last document with some of its slices missing.
ForeignDocument(kind, missing) ==
    /\ kind = "doc" => storage.kind = "doc"
    /\ storage' = CASE kind = "none"    -> NoDocument
                    [] kind = "garbage" -> Unparsable
                    [] OTHER            -> [storage EXCEPT !.present = storage.present \ missing]
    /\ Did("foreignDocument", NoCell, kind, Cardinality(missing), TRUE)
    /\ UNCHANGED << economyVars, clockVars, farmVars, registryVars, livestockVars,
                    isPaused, harvestLog >>

\* The stored document with its list of owned plots rewritten outside the
\* game: any list of ids, known or not, with or without the starter plot.
EditSavedPlots(list) ==
    /\ storage.kind = "doc"
    /\ "farmExpansionData" \in storage.present
    /\ storage' = [storage EXCEPT !.farmExpansionData = [ownedPlots |-> list]]
    /\ Did("editSavedPlots", NoCell, NoneId, Cardinality(list), TRUE)
    /\ UNCHANGED << economyVars, clockVars, farmVars, registryVars, livestockVars,
                    isPaused, harvestLog >>

\* SaveManager.loadGame that rejects a document of another version
loadGameStrict(stored) ==
    IF stored.kind # "doc" THEN NoDocument
    ELSE IF stored.version # SaveVersion THEN NoDocument
    ELSE stored

\* SaveManager.loadGame: null (NoDocument) without an item or when
\* JSON.parse throws; a version other than SAVE_VERSION is logged as a
\* warning and the document is returned all the same.
loadGame(stored) ==
    IF stored.kind # "doc" THEN NoDocument ELSE stored

\* The stored document with its version rewritten: a document written by
\* another release of the game.
EditSavedVersion(version) ==
    /\ storage.kind = "doc"
    /\ storage' = [storage EXCEPT !.version = version]
    /\ Did("editSavedVersion", NoCell, version, 0, TRUE)
    /\ UNCHANGED << economyVars, clockVars, farmVars, registryVars, livestockVars,
                    isPaused, harvestLog >>

\* Game.loadGame: false without a parsable document and when a step throws.
LoadGame ==
    LET parsed == loadGame(storage).kind = "doc"
    IN  \E g \in {IF parsed THEN loadDocument(liveState, storage) ELSE liveState} :
            /\ money' = g.money
            /\ inventory' = g.inventory
            /\ marketPrices' = g.marketPrices
            /\ lastPriceUpdate' = g.lastPriceUpdate
            /\ timeData' = g.timeData
            /\ weather' = g.weather
            /\ crops' = g.crops
            /\ fields' = g.fields
            /\ ownedPlots' = g.ownedPlots
            /\ placedBuildings' = g.placedBuildings
            /\ ownedEquipment' = g.ownedEquipment
            /\ ownedAttachments' = g.ownedAttachments
            /\ vehicleAttachments' = g.vehicleAttachments
            /\ vehicles' = g.vehicles
            /\ animals' = g.animals
            /\ nextAnimalId' = g.nextAnimalId
            /\ harvestLog' = EmptyMap
            /\ Did("loadGame", NoCell, storage.kind, 0, parsed /\ ~ g.thrown)
            /\ UNCHANGED << storage, isPaused >>

\* registry.loadSaveData(registry.getSaveData()) on one registry
RoundTrip(registry) ==
    LET e == economyLoadSaveData(economyGetSaveData(money, inventory, marketPrices, lastPriceUpdate))
        l == livestockLoadSaveData(livestockGetSaveData(animals))
        isEconomy == registry = "economy"
        isAnimals == registry = "livestock"
    IN  /\ money' = IF isEconomy THEN e.money ELSE money
        /\ inventory' = IF isEconomy THEN e.inventory ELSE inventory
        /\ marketPrices' = IF isEconomy THEN e.marketPrices ELSE marketPrices
        /\ lastPriceUpdate' = IF isEconomy THEN e.lastPriceUpdate ELSE lastPriceUpdate
        /\ crops' = IF registry = "crops" THEN cropsLoadSaveData(cropsGetSaveData(crops)) ELSE crops
        /\ fields' = IF registry = "fields" THEN fieldsLoadSaveData(fieldsGetSaveData(fields)) ELSE fields
        /\ ownedPlots' = IF registry = "plots" THEN plotsLoadSaveData(plotsGetSaveData(ownedPlots))
                         ELSE ownedPlots
        /\ placedBuildings' = IF registry = "buildings"
                              THEN buildingsLoadSaveData(buildingsGetSaveData(placedBuildings))
                              ELSE placedBuildings
        /\ ownedEquipment' = IF registry = "equipment"
                             THEN equipmentLoadSaveData(equipmentGetSaveData(ownedEquipment))
                             ELSE ownedEquipment
        /\ animals' = IF isAnimals THEN l.animals ELSE animals
        /\ nextAnimalId' = IF isAnimals THEN l.nextAnimalId ELSE nextAnimalId
        /\ Did("roundTrip", NoCell, registry, 0, TRUE)
        /\ UNCHANGED << clockVars, ownedAttachments, vehicleAttachments, vehicles,
                        storage, isPaused, harvestLog >>

RegistryNames == {"economy", "crops", "fields", "plots", "buildings", "equipment", "livestock"}

(***************************************************************************)
(* Inputs shared by the specifications                                     *)
(***************************************************************************)
\* Seconds of one game day and of one season at timeScale 60.
DaySeconds == 1440

SeasonSeconds == 43200

\* Price draws: every crop at the lowest, the middle or the highest variation.
LowDraws == [c \in CropTypes |-> -200]

MidDraws == [c \in CropTypes |-> 0]

HighDraws == [c \in CropTypes |-> 199]

(***************************************************************************)
(* SpecLedger: the cash ledger under every operation that writes it        *)
(***************************************************************************)
MaxLedgerOps == 6

LedgerCell == <<2, 2>>

LedgerNext ==
    /\ ops < MaxLedgerOps
    /\ \/ BuySeeds("wheat", 1)
       \/ SellCrop("wheat", 1)
       \/ SellAllOfType("wheat")
       \/ SellAllCrops
       \/ \E amount \in {-5, 3} : SetMoney(amount)
       \/ AddToInventory("wheat", 2)
       \/ PurchasePlot("north_plot")
       \/ PlaceBuilding("small_shed", LedgerCell)
       \/ PurchaseEquipment("iron_hoe")
       \/ PurchaseAttachment("field_cultivator")
       \/ PurchaseAnimal("chicken", LedgerCell)
       \/ FeedAnimals
       \/ \E producers \in producerSets(animals) : CollectProducts(producers)
       \/ \E draws \in {LowDraws, HighDraws} : Tick(10 * DaySeconds, "Sunny", draws, {}, FALSE)

SpecLedger == Init /\ [][LedgerNext]_vars

\* C1: after any sequence of buySeeds, sellCrop, sellAllOfType, sellAllCrops,
\* setMoney and the commands that write cash through setMoney (land,
\* building, equipment, attachment and animal purchases, feedAnimals,
\* collectProducts), the cash is never negative.
C1_MoneyNonNegative == money >= 0

\* The clamp has acted: feeding cost more than the cash at hand (more than
\* the 3 last set) and the cash is 0.
C1_Witness ==
    /\ money = 0
    /\ last.op = "feedAnimals"
    /\ last.amount > 3

(***************************************************************************)
(* SpecStorage: the inventory against the storage capacity                 *)
(***************************************************************************)
MaxStorageOps == 5

StorageQuantities == {1, 400, 1100}

StorageCells == {<<2, 2>>, <<10, 10>>, <<30, 0>>}

StorageNext ==
    /\ ops < MaxStorageOps
    /\ \/ \E cropType \in {"wheat", "corn"}, quantity \in StorageQuantities :
              AddToInventory(cropType, quantity)
       \/ \E e \in {"small_silo", "warehouse"} : PurchaseEquipment(e)
       \/ \E id \in {"small_silo", "small_shed"}, c \in StorageCells : PlaceBuilding(id, c)

SpecStorage == Init /\ [][StorageNext]_vars

\* C2: for every sequence of addToInventory calls (quantity >= 1) interleaved
\* with equipment purchases and building placements, the sum of all the
\* inventory counts right after each addToInventory call is at most the
\* storage capacity of that call (no step of the call changes the capacity).
C2_StoredWithinCapacity ==
    last.op = "addToInventory" =>
        inventory["wheat"] + inventory["corn"] + inventory["potato"] + inventory["carrot"]
            <= getStorageCapacity(ownedEquipment, placedBuildings)

\* A call that asked for more than the room left, after a silo raised the
\* capacity: only the part that fits was stored and the store is full.
C2_Witness ==
    /\ last.op = "addToInventory"
    /\ ~ last.ok
    /\ getStorageCapacity(ownedEquipment, placedBuildings) > BaseCapacity
    /\ getTotalInventoryCount(inventory) = getStorageCapacity(ownedEquipment, placedBuildings)
    /\ inventory["wheat"] > 0
    /\ inventory["corn"] > 0

\* C32: addToInventory(type, qty) with used = sum of all counts: if
\* used + qty > capacity it increases the count of type by exactly
\* max(0, capacity - used), changes no other count and returns false;
\* otherwise it increases the count of type by exactly qty and returns true.
C32_AddToInventoryContract ==
    [][ last'.op = "addToInventory" =>
          LET used == getTotalInventoryCount(inventory)
              capacity == getStorageCapacity(ownedEquipment, placedBuildings)
              added == IF used + last'.amount > capacity
                       THEN Max(0, capacity - used) ELSE last'.amount
          IN  /\ inventory' = [inventory EXCEPT ![last'.type] = inventory[last'.type] + added]
              /\ last'.ok <=> ~ (used + last'.amount > capacity) ]_vars

\* A call for 400 has just been refused with 100 of it stored: the store
\* held 400 and is full at the base capacity.
C32_Witness ==
    /\ last.op = "addToInventory"
    /\ ~ last.ok
    /\ last.type = "corn"
    /\ last.amount = 400
    /\ inventory["corn"] = 100
    /\ inventory["wheat"] = 400
    /\ getStorageCapacity(ownedEquipment, placedBuildings) = BaseCapacity

\* C16: in every state reachable from Game initialization, the capacity
\* addToInventory uses, getStorageCapacity(), equals 500 + the sum of
\* storageCapacity over the owned equipment + the sum of storageCapacity over
\* the placed buildings.
C16_CapacityIsSumOfParts ==
    getStorageCapacity(ownedEquipment, placedBuildings)
        = BaseCapacity + getEquipmentEffects(ownedEquipment).storageCapacity
          + getTotalStorageCapacity(placedBuildings)

\* The silo of the equipment shop has been bought and the capacity is still
\* the base capacity: the ledger has no equipment registry to ask.
C16_SiloEquipmentNotCounted ==
    /\ last.op = "purchaseEquipment"
    /\ last.type = "small_silo"
    /\ last.ok
    /\ placedBuildings = << >>
    /\ getEquipmentEffects(ownedEquipment).storageCapacity = 1000
    /\ getStorageCapacity(ownedEquipment, placedBuildings) = BaseCapacity

(***************************************************************************)
(* SpecCrop: CropSystem.plantCrop and harvestCrop called directly, on an   *)
(* owned cell, a cell of the unowned north plot and a cell of no plot      *)
(***************************************************************************)
MaxCropOps == 5

OwnedCell == <<0, 0>>

NorthCell == <<0, 22>>

OutsideCell == <<22, 0>>

CropCells == {OwnedCell, NorthCell, OutsideCell}

CropNext ==
    /\ ops < MaxCropOps
    /\ \/ \E c \in CropCells : PlantCrop("carrot", c)
       \/ PlantCrop("wheat", OwnedCell)
       \/ \E c \in CropCells : HarvestCrop(c, 2)
       \/ HarvestCrop(OwnedCell, 4)
       \/ \E c \in CropCells : Till(c)
       \/ PurchasePlot("north_plot")
       \/ SetMoney(0)
       \/ \E days \in {1, 3}, drawn \in {"Sunny", "Stormy"} :
              Tick(days * DaySeconds, drawn, MidDraws, {}, FALSE)

SpecCrop == Init /\ [][CropNext]_vars

\* The position lies within the bounds of a plot that is owned.
withinOwnedPlot(c) ==
    \E p \in ownedPlots :
        /\ plotCatalog[p].minX <= c[1] /\ c[1] <= plotCatalog[p].maxX
        /\ plotCatalog[p].minZ <= c[2] /\ c[2] <= plotCatalog[p].maxZ

\* C4: plantCrop(type, position) returns false and creates no crop whenever
\* the position lies outside the bounds of every owned plot, whatever the
\* field state of the cell and whatever the cash.
C4_UnownedPlantFails ==
    [][ (last'.op = "plantCrop" /\ ~ withinOwnedPlot(last'.cell))
            => (~ last'.ok /\ crops' = crops) ]_vars

\* plantCrop has just failed on a tilled cell of the unowned north plot with
\* the cash for the seed at hand.
C4_Witness ==
    /\ last.op = "plantCrop"
    /\ last.cell = NorthCell
    /\ "north_plot" \notin ownedPlots
    /\ getFieldState(fields, NorthCell) = "tilled"
    /\ money >= seedPrices[last.type]
    /\ ~ last.ok
    /\ NorthCell \notin DOMAIN crops

\* C5: harvestCrop(position) returns null and leaves the crop registry
\* unchanged when no crop exists at the position or its growthStage < 3;
\* otherwise it removes exactly that crop and returns its type with an
\* amount >= 1.
C5_HarvestContract ==
    [][ last'.op = "harvestCrop" =>
          IF last'.cell \in DOMAIN crops /\ crops[last'.cell].growthStage >= 3
          THEN /\ DOMAIN crops' = (DOMAIN crops) \ {last'.cell}
               /\ \A c \in DOMAIN crops' : crops'[c] = crops[c]
               /\ last'.type = crops[last'.cell].type
               /\ last'.amount >= 1
               /\ last'.ok
          ELSE /\ crops' = crops
               /\ last'.type = NoneId
               /\ ~ last'.ok ]_vars

\* A mature crop has just been harvested in a storm: the draw of 2 at a
\* yield of 0.8 gives 1.
C5_Witness ==
    /\ last.op = "harvestCrop"
    /\ last.ok
    /\ last.type = "carrot"
    /\ last.amount = 1
    /\ weather.type = "Stormy"
    /\ last.cell \notin DOMAIN crops

\* harvestCrop has just refused a crop that is planted but not mature.
C5_WitnessImmature ==
    /\ last.op = "harvestCrop"
    /\ ~ last.ok
    /\ last.cell \in DOMAIN crops
    /\ crops[last.cell].growthStage \in 1..2

(***************************************************************************)
(* SpecGrowth: one cell planted and left to grow under constant weather    *)
(* while the clock runs by days and by seasons                             *)
(***************************************************************************)
MaxGrowthOps == 7

GrowthNext ==
    /\ ops < MaxGrowthOps
    /\ \/ \E cropType \in {"carrot", "corn"} : PlantCrop(cropType, OwnedCell)
       \/ HarvestCrop(OwnedCell, 3)
       \/ \E delta \in {DaySeconds, SeasonSeconds} :
              Tick(delta, weather.type, MidDraws, {}, FALSE)

SpecGrowth == Init /\ [][GrowthNext]_vars

\* C6: with the weather type held constant, the growthStage of every crop
\* that stays planted is, after each tick, at least its growthStage after the
\* previous tick, for any amount of in-game time elapsed since planting.
C6_StageNeverRegresses ==
    [][ (last'.op = "tick" /\ weather'.type = weather.type) =>
          \A c \in (DOMAIN crops) \cap (DOMAIN crops') :
              crops'[c].growthStage >= crops[c].growthStage ]_vars

(***************************************************************************)
(* SpecDecay: one cell tilled, planted, harvested and left alone while the *)
(* clock runs one day per tick, so that every day has its tick             *)
(***************************************************************************)
MaxDecayOps == 15

DecayNext ==
    /\ ops < MaxDecayOps
    /\ \/ Till(OwnedCell)
       \/ Plant(OwnedCell, "carrot")
       \/ Harvest(OwnedCell, 2)
       \/ Tick(DaySeconds, weather.type, MidDraws, {}, FALSE)

SpecDecay == Init /\ [][DecayNext]_vars

\* C10: a cell that becomes harvested on day D, with no player action on it
\* afterwards and D + 8 <= 30 (same season), is stubble after the first tick
\* of day D + 3 and untilled after the first tick of day D + 8.  harvestLog
\* holds the date of the harvest for as long as no command has touched the
\* cell, and every state of day D + n follows the first tick of that day.
C10_DecaySchedule ==
    \A c \in DOMAIN harvestLog :
        ( /\ harvestLog[c].season = timeData.season
          /\ harvestLog[c].year = timeData.year
          /\ harvestLog[c].day + 8 <= DaysInSeason )
        => /\ timeData.day = harvestLog[c].day + 3 => getFieldState(fields, c) = "stubble"
           /\ timeData.day = harvestLog[c].day + 8 => getFieldState(fields, c) = "untilled"

\* The first half of the schedule: stubble on day D + 3.
DecayToStubbleOnThirdDay ==
    \A c \in DOMAIN harvestLog :
        ( /\ harvestLog[c].season = timeData.season
          /\ harvestLog[c].year = timeData.year
          /\ timeData.day = harvestLog[c].day + 3 )
        => getFieldState(fields, c) = "stubble"

\* What the cell does on the days after: still stubble on day D + 8,
\* untilled on day D + 9.
DecayToUntilledOnNinthDay ==
    \A c \in DOMAIN harvestLog :
        ( /\ harvestLog[c].season = timeData.season
          /\ harvestLog[c].year = timeData.year )
        => /\ timeData.day = harvestLog[c].day + 8 => getFieldState(fields, c) = "stubble"
           /\ timeData.day = harvestLog[c].day + 9 => getFieldState(fields, c) = "untilled"

(***************************************************************************)
(* SpecFarm: the till, plant and harvest commands, on foot and from the    *)
(* tractor with a working-area attachment                                  *)
(***************************************************************************)
MaxFarmOps == 5

FarmCells == {<<0, 0>>, <<2, 2>>}

FarmNext ==
    /\ ops < MaxFarmOps
    /\ \/ \E c \in FarmCells : Till(c)
       \/ \E c \in FarmCells : Plant(c, "carrot")
       \/ Plant(OwnedCell, "wheat")
       \/ \E c \in FarmCells : Harvest(c, 2)
       \/ ToggleVehicle("tractor_1")
       \/ \E a \in {"heavy_plow", "precision_seeder"} : PurchaseAttachment(a)
       \/ Tick(3 * DaySeconds, weather.type, MidDraws, {}, FALSE)

SpecFarm == Init /\ [][FarmNext]_vars

\* The field states of a cell under a crop.
CropStates == {"planted", "growing", "mature"}

\* C37: after any sequence of till, plant and harvest commands and ticks
\* (without loads), a crop exists at a cell if and only if that cell's field
\* state is one of planted, growing, mature; no cell holds a crop while its
\* field state is untilled, tilled, harvested or stubble.
C37_CropIffCropState ==
    \A c \in (DOMAIN crops) \cup (DOMAIN fields) :
        c \in DOMAIN crops <=> getFieldState(fields, c) \in CropStates

\* A harvest has just removed the mature crop of a cell, which is harvested
\* and was sown with it.
C37_Witness ==
    /\ last.op = "harvest"
    /\ last.ok
    /\ last.cell \notin DOMAIN crops
    /\ getFieldState(fields, last.cell) = "harvested"
    /\ fields[last.cell].cropType = last.type

\* C3: no plant command creates a crop at a cell whose field state, read
\* just before the command, is not tilled (a cell with no field record counts
\* as not tilled); this holds for the targeted cell and for every
\* neighbourhood cell of a working-area plant.
C3_PlantOnlyOnTilled ==
    [][ last'.op = "plant" =>
          \A c \in (DOMAIN crops') \ (DOMAIN crops) :
              c \in DOMAIN fields /\ fields[c].state = "tilled" ]_vars

\* A working-area plant from the tractor has just planted some cells of its
\* 3 x 3 neighbourhood and skipped the others, which were not tilled.
C3_Witness ==
    /\ last.op = "plant"
    /\ last.ok
    /\ workingAreaOf(vehicles, ownedAttachments, vehicleAttachments) = 3
    /\ last.amount >= 2
    /\ last.amount < 9
    /\ \E c \in DOMAIN crops : fields[c].state = "planted"

\* The precondition of tilling one cell: no crop on it and a field state of
\* untilled, stubble or none.
tillPrecondition(c) ==
    /\ c \notin DOMAIN crops
    /\ getFieldState(fields, c) \in {"untilled", "stubble", NoneId}

\* C25: a till command sets a cell to 'tilled' and records the current day
\* only if no crop occupies the cell and its state is 'untilled', 'stubble'
\* or absent; for any other cell (crop present, or state tilled, planted,
\* growing, mature or harvested) the cell's state and lastStateChange are
\* unchanged.
C25_TillOnlyWhereAllowed ==
    [][ last'.op = "till" =>
          /\ DOMAIN fields \subseteq DOMAIN fields'
          /\ \A c \in DOMAIN fields' :
                IF c \in DOMAIN fields /\ fields'[c] = fields[c] THEN TRUE
                ELSE /\ tillPrecondition(c)
                     /\ fields'[c].state = "tilled"
                     /\ fields'[c].lastStateChange = timeData.day
          /\ \A c \in DOMAIN fields :
                ~ tillPrecondition(c) =>
                   /\ fields'[c].state = fields[c].state
                   /\ fields'[c].lastStateChange = fields[c].lastStateChange ]_vars

\* A till from the tractor with the plow has just tilled eight cells of its
\* neighbourhood and left alone the ninth, which carries a crop.
C25_Witness ==
    /\ last.op = "till"
    /\ last.ok
    /\ last.cell = <<0, 0>>
    /\ last.amount = 8
    /\ vehicles.current = "tractor_1"
    /\ <<2, 2>> \in DOMAIN crops
    /\ getFieldState(fields, <<2, 2>>) = "planted"
    /\ getFieldState(fields, <<-2, -2>>) = "tilled"

\* The cells a till or plant command issued now at c would consider.
neighbourhood(c) ==
    LET positions == getPlantingPositions(c, workingAreaOf(vehicles, ownedAttachments, vehicleAttachments))
    IN  { positions[i] : i \in 1..Len(positions) }

\* The precondition of planting one cell: tilled, free of crops, on owned
\* land (the cash covers the seeds of the whole neighbourhood here).
plantPrecondition(c) ==
    /\ getFieldState(fields, c) = "tilled"
    /\ c \notin DOMAIN crops
    /\ isPositionOnOwnedLand(ownedPlots, c)

\* C26: in a working-area till or plant, each cell of the neighbourhood is
\* validated on its own: every cell that meets the preconditions is affected
\* even when other cells of the neighbourhood, the targeted centre cell among
\* them, fail the preconditions.
C26_EachCellOnItsOwn ==
    [][ /\ last'.op = "till" =>
              \A p \in neighbourhood(last'.cell) :
                  tillPrecondition(p) => getFieldState(fields', p) = "tilled"
        /\ last'.op = "plant" =>
              \A p \in neighbourhood(last'.cell) :
                  (plantPrecondition(p) /\ money >= seedPrices[last'.type] * 9)
                     => p \in DOMAIN crops' ]_vars

\* The part that holds: when the targeted cell itself meets the
\* preconditions, every cell of the neighbourhood that meets them is
\* affected, whatever the other cells are.
C26_EachCellOnItsOwnGivenCentre ==
    [][ /\ (last'.op = "till" /\ tillPrecondition(last'.cell)) =>
              \A p \in neighbourhood(last'.cell) :
                  tillPrecondition(p) => getFieldState(fields', p) = "tilled"
        /\ (last'.op = "plant" /\ plantPrecondition(last'.cell)) =>
              \A p \in neighbourhood(last'.cell) :
                  (plantPrecondition(p) /\ money >= seedPrices[last'.type] * 9)
                     => p \in DOMAIN crops' ]_vars

\* A till from the tractor with the plow has just done nothing: the
\* targeted cell was tilled already, and its untilled neighbours are left
\* as they were.
C26_AbortedOnCentre ==
    /\ last.op = "till"
    /\ ~ last.ok
    /\ last.cell = <<0, 0>>
    /\ workingAreaOf(vehicles, ownedAttachments, vehicleAttachments) = 3
    /\ getFieldState(fields, <<0, 0>>) = "tilled"
    /\ getFieldState(fields, <<2, 2>>) = NoneId
    /\ <<2, 2>> \notin DOMAIN crops

(***************************************************************************)
(* SpecRoundTrip: loadSaveData(getSaveData()) of each registry, on states  *)
(* the commands have filled                                                *)
(***************************************************************************)
MaxRoundTripOps == 5

RoundTripNext ==
    /\ ops < MaxRoundTripOps
    /\ \/ \E amount \in {0, 250} : SetMoney(amount)
       \/ AddToInventory("wheat", 3)
       \/ Till(OwnedCell)
       \/ Plant(OwnedCell, "carrot")
       \/ Tick(2 * DaySeconds, "Rainy", HighDraws, {}, FALSE)
       \/ PurchasePlot("north_plot")
       \/ PlaceBuilding("small_silo", <<10, 10>>)
       \/ PurchaseEquipment("iron_hoe")
       \/ PurchaseAnimal("chicken", <<4, 4>>)
       \/ \E registry \in RegistryNames : RoundTrip(registry)

SpecRoundTrip == Init /\ [][RoundTripNext]_vars

\* C7: for every reachable economy state (any money >= 0, any inventory
\* counts), EconomySystem.loadSaveData applied to the output of getSaveData
\* leaves the money, every inventory count, every market price and the
\* price-timer value equal to their values at the time of the save.
C7_EconomyRoundTrip ==
    [][ (last'.op = "roundTrip" /\ last'.type = "economy") =>
          /\ money' = money
          /\ inventory' = inventory
          /\ marketPrices' = marketPrices
          /\ lastPriceUpdate' = lastPriceUpdate ]_vars

\* The same round trip with the cash left out: inventory, prices and price
\* timer come back as saved.
EconomyRoundTripButMoney ==
    [][ (last'.op = "roundTrip" /\ last'.type = "economy") =>
          /\ inventory' = inventory
          /\ marketPrices' = marketPrices
          /\ lastPriceUpdate' = lastPriceUpdate
          /\ (money # 0 => money' = money) ]_vars

\* C8: for every reachable state, each registry's loadSaveData applied to
\* its own getSaveData output reproduces the same crop set (cell, type,
\* plantedDay, plantedSeason, growthStage), field cells (state,
\* lastStateChange, cropType), owned plot set, placed-building list (id,
\* position, dimensions), owned equipment set and animal list (id, type,
\* age, happiness, health, lastFed).
C8_RegistryRoundTrip ==
    [][ last'.op = "roundTrip" =>
          /\ crops' = crops
          /\ fields' = fields
          /\ ownedPlots' = ownedPlots
          /\ placedBuildings' = placedBuildings
          /\ ownedEquipment' = ownedEquipment
          /\ animals' = animals ]_vars

\* The crop registry has just made the round trip with a crop in it that
\* has grown past the seedling stage on a field cell that follows it.
C8_Witness ==
    /\ last.op = "roundTrip"
    /\ last.type = "crops"
    /\ OwnedCell \in DOMAIN crops
    /\ crops[OwnedCell].growthStage >= 2
    /\ getFieldState(fields, OwnedCell) = "growing"

(***************************************************************************)
(* SpecSave: saveGame, loadGame and what localStorage may hold             *)
(***************************************************************************)
MaxSaveOps == 5

\* The slices an older or damaged document lacks, one at a time.
MissingSlices == {{"cropsData"}, {"equipmentData"}, {"fieldStateData"}, {"playerPosition"}}

SaveNext ==
    /\ ops < MaxSaveOps
    /\ \/ SaveGame
       \/ LoadGame
       \/ \E kind \in {"none", "garbage"} : ForeignDocument(kind, {})
       \/ \E missing \in MissingSlices : ForeignDocument("doc", missing)
       \/ SetMoney(250)
       \/ Till(OwnedCell)
       \/ Plant(OwnedCell, "carrot")
       \/ PurchaseEquipment("iron_hoe")
       \/ PurchaseAnimal("chicken", <<4, 4>>)
       \/ TogglePause
       \/ \E autosave \in BOOLEAN : Tick(2 * DaySeconds, "Rainy", HighDraws, {}, autosave)

SpecSave == Init /\ [][SaveNext]_vars

\* C9: if a load fails (no stored document, an unparsable document, or an
\* exception raised while a registry rebuilds from its slice, for example a
\* document missing a required slice), loadGame returns false and every
\* registry's live state equals its state before the call.  The clock and
\* the weather are left out of the comparison: the registries compared are
\* those whose loaders are in the source.
C9_FailedLoadChangesNothing ==
    [][ (last'.op = "loadGame" /\ ~ last'.ok) =>
          UNCHANGED << money, inventory, marketPrices, lastPriceUpdate, crops, fields,
                       ownedPlots, placedBuildings, ownedEquipment, ownedAttachments,
                       vehicleAttachments, vehicles, animals, nextAnimalId >> ]_vars

\* The part of it that holds: a load that finds no document, or one that
\* JSON.parse rejects, changes no registry.
LoadWithoutDocumentChangesNothing ==
    [][ (last'.op = "loadGame" /\ storage.kind # "doc") =>
          /\ ~ last'.ok
          /\ UNCHANGED << economyVars, clockVars, farmVars, registryVars, livestockVars >> ]_vars

\* A load has just failed on a document without its crop slice, after the
\* ledger was rebuilt from the document and the crop registry was cleared.
FailedLoadAfterPartialOverwrite ==
    /\ last.op = "loadGame"
    /\ ~ last.ok
    /\ storage.kind = "doc"
    /\ "cropsData" \notin storage.present
    /\ money = storage.economyData.money
    /\ money # 250
    /\ crops = EmptyMap

(***************************************************************************)
(* SpecScenario: one cell tilled, sown with wheat, grown under the sun and *)
(* harvested, on foot with the basic hoe; the clock runs by half days and  *)
(* by days (a frame is far shorter than either)                            *)
(***************************************************************************)
MaxScenarioOps == 10

HalfDaySeconds == 720

ScenarioNext ==
    /\ ops < MaxScenarioOps
    /\ \/ Till(OwnedCell)
       \/ Plant(OwnedCell, "wheat")
       \/ \E delta \in {HalfDaySeconds, DaySeconds} :
              Tick(delta, "Sunny", MidDraws, {}, FALSE)
       \/ \E baseAmount \in 2..4 : Harvest(OwnedCell, baseAmount)

SpecScenario == Init /\ [][ScenarioNext]_vars

\* The order in which a cell's field state may change during the scenario.
ScenarioOrder ==
    { <<NoneId, "tilled">>, <<"untilled", "tilled">>, <<"stubble", "tilled">>,
      <<"tilled", "planted">>, <<"planted", "growing">>, <<"growing", "mature">>,
      <<"mature", "harvested">>, <<"harvested", "stubble">>, <<"stubble", "untilled">> }

\* C11: from the untilled owned cell (0,0), under Sunny weather with only the
\* basic hoe and no attachment, till, plant wheat and let the clock run: the
\* cell's field state goes tilled, planted, growing, mature in that order (it
\* changes only along that order), it is mature once 5 in-game days have
\* passed since planting, and a harvest command on the mature cell returns
\* wheat with an amount >= 2 and makes the field state harvested.
C11_WheatLifeCycle ==
    [][ /\ getFieldState(fields', OwnedCell) # getFieldState(fields, OwnedCell)
           => << getFieldState(fields, OwnedCell), getFieldState(fields', OwnedCell) >>
                 \in ScenarioOrder
        /\ ( /\ OwnedCell \in DOMAIN crops'
             /\ calculateDaysSincePlanted(crops'[OwnedCell], timeData') >= 5 )
           => getFieldState(fields', OwnedCell) = "mature"
        /\ ( /\ last'.op = "harvest"
             /\ getFieldState(fields, OwnedCell) = "mature" )
           => /\ last'.type = "wheat"
              /\ last'.amount >= 2
              /\ getFieldState(fields', OwnedCell) = "harvested" ]_vars

\* The scenario itself has run: till, plant, five day-long ticks and the
\* harvest, eight operations ending on day 6 with wheat in the inventory.
C11_Witness ==
    /\ ops = 8
    /\ timeData.day = InitialTimeData.day + 5
    /\ last.op = "harvest"
    /\ last.ok
    /\ last.type = "wheat"
    /\ last.amount >= 2
    /\ inventory["wheat"] = last.amount
    /\ getFieldState(fields, OwnedCell) = "harvested"
    /\ harvestLog[OwnedCell].day = timeData.day

(***************************************************************************)
(* SpecPurchase: every purchase command with the cash set high and low     *)
(***************************************************************************)
MaxPurchaseOps == 5

\* Cash amounts below the seed price, between the fence and the shed, and
\* between the cheapest attachment and the dearest purchase offered.
PurchaseCash == {1, 60, 6000}

PurchaseCell == <<4, 4>>

PurchaseNext ==
    /\ ops < MaxPurchaseOps
    /\ \/ \E amount \in PurchaseCash : SetMoney(amount)
       \/ PurchasePlot("north_plot")
       \/ \E id \in {"wooden_fence", "small_shed"} : PlaceBuilding(id, PurchaseCell)
       \/ \E e \in {"watering_can", "steel_hoe"} : PurchaseEquipment(e)
       \/ \E a \in {"field_cultivator", "precision_seeder"} : PurchaseAttachment(a)
       \/ \E animalType \in {"chicken", "cow"} : PurchaseAnimal(animalType, PurchaseCell)
       \/ Till(OwnedCell)
       \/ Plant(OwnedCell, "wheat")

SpecPurchase == Init /\ [][PurchaseNext]_vars

\* The purchase commands.
PurchaseOps ==
    {"purchasePlot", "placeBuilding", "purchaseEquipment", "purchaseAttachment",
     "purchaseAnimal", "plant"}

\* The price a purchase command asks for in the state it is issued in: the
\* catalog price of the item, and for a plant command the seed price times
\* the number of positions of the working area.
requiredPrice(op, type, c) ==
    CASE op = "purchasePlot"       -> plotCatalog[type].price
      [] op = "placeBuilding"      -> buildingCatalog[type].price
      [] op = "purchaseEquipment"  -> equipmentCatalog[type].price
      [] op = "purchaseAttachment" -> attachmentCatalog[type].price
      [] op = "purchaseAnimal"     -> animalInfo[type].purchasePrice
      [] op = "plant"              ->
            seedPrices[type] *
            Len(getPlantingPositions(c, workingAreaOf(vehicles, ownedAttachments, vehicleAttachments)))

\* C12: a purchase command (land plot, building placement, equipment,
\* attachment, animal, or the seed purchase of a plant command) issued when
\* cash is below the required price returns failure and leaves cash and every
\* registry unchanged.
C12_UnaffordablePurchaseFails ==
    [][ ( /\ last'.op \in PurchaseOps
          /\ money < requiredPrice(last'.op, last'.type, last'.cell) )
        => /\ ~ last'.ok
           /\ UNCHANGED << money, inventory, crops, fields, ownedPlots, placedBuildings,
                           ownedEquipment, ownedAttachments, vehicleAttachments,
                           animals, nextAnimalId >> ]_vars

\* The purchase commands that acquire an item of a catalog.
ItemPurchaseOps ==
    {"purchasePlot", "placeBuilding", "purchaseEquipment", "purchaseAttachment",
     "purchaseAnimal"}

\* C31: each successful purchase command (land plot, building placement,
\* equipment, attachment, animal) decreases cash by exactly the item's price
\* and acquires exactly that one item within the same command; no reachable
\* state shows the cash deduction without the acquisition or the acquisition
\* without the deduction: a refused command changes neither cash nor any
\* registry of items.
C31_PurchaseIsAtomic ==
    [][ last'.op \in ItemPurchaseOps =>
          LET op == last'.op
              item == last'.type
          IN  /\ money' = IF last'.ok
                          THEN money - requiredPrice(op, item, last'.cell)
                          ELSE money
              /\ ownedPlots' = IF last'.ok /\ op = "purchasePlot"
                               THEN ownedPlots \cup {item} ELSE ownedPlots
              /\ ownedEquipment' = IF last'.ok /\ op = "purchaseEquipment"
                                   THEN ownedEquipment \cup {item} ELSE ownedEquipment
              /\ ownedAttachments' = IF last'.ok /\ op = "purchaseAttachment"
                                     THEN ownedAttachments \cup {item} ELSE ownedAttachments
              /\ (last'.ok /\ op \in {"purchasePlot", "purchaseEquipment", "purchaseAttachment"})
                    => item \notin (ownedPlots \cup ownedEquipment \cup ownedAttachments)
              /\ IF last'.ok /\ op = "placeBuilding"
                 THEN /\ Len(placedBuildings') = Len(placedBuildings) + 1
                      /\ SubSeq(placedBuildings', 1, Len(placedBuildings)) = placedBuildings
                      /\ placedBuildings'[Len(placedBuildings')].id = item
                      /\ placedBuildings'[Len(placedBuildings')].position = last'.cell
                 ELSE placedBuildings' = placedBuildings
              /\ IF last'.ok /\ op = "purchaseAnimal"
                 THEN /\ Len(animals') = Len(animals) + 1
                      /\ SubSeq(animals', 1, Len(animals)) = animals
                      /\ animals'[Len(animals')].type = item
                 ELSE animals' = animals ]_vars

\* A shed has just been placed and paid for.
C31_Witness ==
    /\ last.op = "placeBuilding"
    /\ last.ok
    /\ last.type = "small_shed"
    /\ Len(placedBuildings) = 1
    /\ placedBuildings[1].id = "small_shed"
    /\ money = 6000 - buildingCatalog["small_shed"].price

\* An animal purchase has just been refused for lack of cash on owned land.
C12_Witness ==
    /\ last.op = "purchaseAnimal"
    /\ ~ last.ok
    /\ isPositionOnOwnedLand(ownedPlots, last.cell)
    /\ money < animalInfo[last.type].purchasePrice
    /\ animals = << >>

\* A plant command on a tilled cell has just been refused for lack of cash.
C12_WitnessSeeds ==
    /\ last.op = "plant"
    /\ ~ last.ok
    /\ getFieldState(fields, last.cell) = "tilled"
    /\ money < seedPrices[last.type]

(***************************************************************************)
(* SpecLand: plot purchases, ticks, saves and loads of documents whose     *)
(* list of owned plots is arbitrary                                        *)
(***************************************************************************)
MaxLandOps == 6

\* An id no plot of the catalog carries.
UnknownPlot == "lost_plot"

LandNext ==
    /\ ops < MaxLandOps
    /\ \/ \E plotId \in {"north_plot", "west_plot", "starter_plot"} : PurchasePlot(plotId)
       \/ Tick(DaySeconds, weather.type, MidDraws, {}, FALSE)
       \/ SaveGame
       \/ \E list \in SUBSET (PlotIds \cup {UnknownPlot}) : EditSavedPlots(list)
       \/ ForeignDocument("doc", {"farmExpansionData"})
       \/ LoadGame

SpecLand == Init /\ [][LandNext]_vars

\* C13: the plot 'starter_plot' is owned in every reachable state, after any
\* sequence of purchasePlot calls and loadSaveData calls with any document.
C13_StarterPlotOwned == "starter_plot" \in ownedPlots

\* A document that does not list the starter plot has just been loaded.
C13_Witness ==
    /\ last.op = "loadGame"
    /\ last.ok
    /\ "farmExpansionData" \in storage.present
    /\ "starter_plot" \notin storage.farmExpansionData.ownedPlots
    /\ "north_plot" \in ownedPlots

\* C14 as stated: once a plot is owned it is owned in every later state,
\* under purchase commands, ticks and loadSaveData calls.
C14_OwnershipOneWay == [][ownedPlots \subseteq ownedPlots']_vars

\* C14, amended: purchase commands and ticks never revoke a plot; a load of
\* a document carrying the plot slice leaves owned exactly the starter plot
\* and the catalog plots the document lists, and a load of a document without
\* the slice, or of no document, leaves the ownership as it was.
C14_OwnershipOneWayBetweenLoads ==
    [][ /\ last'.op # "loadGame" => ownedPlots \subseteq ownedPlots'
        /\ (last'.op = "loadGame" /\ last'.ok) =>
              ownedPlots' =
                 IF "farmExpansionData" \in storage.present
                 THEN {"starter_plot"} \cup (storage.farmExpansionData.ownedPlots \cap PlotIds)
                 ELSE ownedPlots ]_vars

\* A load has just revoked a plot: the document lists the starter plot only
\* and the north plot, paid for with the cash the document has restored, is
\* no longer owned.
C14_Witness ==
    /\ last.op = "loadGame"
    /\ last.ok
    /\ storage.farmExpansionData.ownedPlots = {"starter_plot"}
    /\ ownedPlots = {"starter_plot"}
    /\ ops = 3
    /\ money = StartMoney

(***************************************************************************)
(* SpecEquipment: equipment bought in every order                          *)
(***************************************************************************)
MaxEquipmentOps == 3

EquipmentNext ==
    /\ ops < MaxEquipmentOps
    /\ \/ \E e \in EquipmentIds : PurchaseEquipment(e)
       \/ SetMoney(StartMoney)

SpecEquipment == Init /\ [][EquipmentNext]_vars

\* C15: for any two distinct catalog items A and B and any starting ownership
\* set (here: every set a sequence of purchases reaches), getEquipmentEffects
\* after purchaseEquipment(A) then purchaseEquipment(B) equals, field by
\* field (the two records of six fields are equal), getEquipmentEffects
\* after purchaseEquipment(B) then purchaseEquipment(A).
C15_EffectsOrderIndependent ==
    \A a, b \in EquipmentIds :
        a # b =>
          getEquipmentEffects(purchaseEquipment(purchaseEquipment(ownedEquipment, a), b))
          = getEquipmentEffects(purchaseEquipment(purchaseEquipment(ownedEquipment, b), a))

\* Two items with different effects have been bought one after the other:
\* the steel hoe, then the small silo.
C15_Witness ==
    /\ ownedEquipment = {"basic_hoe", "steel_hoe", "small_silo"}
    /\ last.op = "purchaseEquipment"
    /\ last.type = "small_silo"
    /\ last.ok
    /\ ops = 2
    /\ getEquipmentEffects(ownedEquipment).storageCapacity = 1000
    /\ getEquipmentEffects(ownedEquipment).plantingSpeed = <<200, 100>>

(***************************************************************************)
(* SpecMarket: the price timer run by frames, every crop's draw at the     *)
(* lowest or the highest variation Math.random can give, or all at none    *)
(***************************************************************************)
MaxMarketOps == 4

HalfInterval == 150

\* One draw per crop: (Math.random() - 0.5) * 0.4 in thousandths, from
\* -0.2 (Math.random() = 0) to just under 0.2.
MarketDraws == [CropTypes -> {-200, 199}] \cup {MidDraws}

MarketNext ==
    /\ ops < MaxMarketOps
    /\ \E deltaTime \in {HalfInterval, PriceUpdateInterval}, draws \in MarketDraws :
           Tick(deltaTime, weather.type, draws, {}, FALSE)

SpecMarket == Init /\ [][MarketNext]_vars

\* C17: after any number of market price updates, each crop's market price p
\* satisfies 0.6 x base <= p <= 1.4 x base for its fixed base price (wheat 8,
\* corn 12, potato 10, carrot 6).
C17_PricesWithinBand ==
    \A c \in CropTypes :
        /\ 6 * basePrices[c] <= 10 * marketPrices[c]
        /\ 10 * marketPrices[c] <= 14 * basePrices[c]

\* A second price update has just run and left wheat at its lowest price
\* and corn at its highest.
C17_Witness ==
    /\ last.op = "tick"
    /\ lastPriceUpdate = 0
    /\ ops >= 2
    /\ marketPrices["wheat"] = 6
    /\ marketPrices["corn"] = 14
    /\ marketPrices["potato"] = 8
    /\ marketPrices["carrot"] = 7

(***************************************************************************)
(* SpecBuild: fences and sheds placed on neighbouring snapped positions of *)
(* the starter plot, on the north plot and outside every plot              *)
(***************************************************************************)
MaxBuildOps == 4

BuildCells == {<<0, 0>>, <<2, 0>>, <<0, 2>>, <<0, 22>>, <<22, 0>>}

BuildNext ==
    /\ ops < MaxBuildOps
    /\ \/ \E id \in {"wooden_fence", "small_shed"}, c \in BuildCells : PlaceBuilding(id, c)
       \/ PurchasePlot("north_plot")

SpecBuild == Init /\ [][BuildNext]_vars

\* The box of a placed building on one axis, in quarter units: centre 4c,
\* half extent d (the stored dimension, in half units).
boxLow(c, d) == 4 * c - d

boxHigh(c, d) == 4 * c + d

\* Two placed buildings whose boxes share a point (all buildings stand at
\* the same height, so the boxes always overlap on the vertical axis).
boxesIntersect(a, b) ==
    /\ Max(boxLow(a.position[1], a.dimensions[1]), boxLow(b.position[1], b.dimensions[1]))
          <= Min(boxHigh(a.position[1], a.dimensions[1]), boxHigh(b.position[1], b.dimensions[1]))
    /\ Max(boxLow(a.position[2], a.dimensions[3]), boxLow(b.position[2], b.dimensions[3]))
          <= Min(boxHigh(a.position[2], a.dimensions[3]), boxHigh(b.position[2], b.dimensions[3]))

\* C18: after any sequence of building-placement commands, the axis-aligned
\* boxes (centred on position, sized by the dimensions stored with the placed
\* instance) of any two placed buildings do not intersect, and every placed
\* building's position was inside an owned plot when it was placed.
C18_BuildingsDisjointOnOwnedLand ==
    [][ /\ \A i, j \in 1..Len(placedBuildings') :
              i # j => ~ boxesIntersect(placedBuildings'[i], placedBuildings'[j])
        /\ placedBuildings' # placedBuildings =>
              /\ last'.op = "placeBuilding"
              /\ Len(placedBuildings') = Len(placedBuildings) + 1
              /\ SubSeq(placedBuildings', 1, Len(placedBuildings)) = placedBuildings
              /\ placedBuildings'[Len(placedBuildings')].position = last'.cell
              /\ isPositionOnOwnedLand(ownedPlots, last'.cell) ]_vars

\* A shed stands on the north plot and two fences stand two units apart on
\* the starter plot, the nearest positions whose boxes do not meet.
C18_Witness ==
    /\ Len(placedBuildings) = 3
    /\ \E i, j, k \in 1..3 :
          /\ placedBuildings[i].id = "wooden_fence" /\ placedBuildings[i].position = <<0, 0>>
          /\ placedBuildings[j].id = "wooden_fence" /\ placedBuildings[j].position = <<0, 2>>
          /\ placedBuildings[k].id = "small_shed" /\ placedBuildings[k].position = <<0, 22>>

\* A placement has just been refused because its box would touch the box
\* of a fence already standing.
C18_WitnessRefused ==
    /\ last.op = "placeBuilding"
    /\ ~ last.ok
    /\ last.type = "wooden_fence"
    /\ last.cell = <<2, 0>>
    /\ Len(placedBuildings) = 1
    /\ placedBuildings[1].position = <<0, 0>>
    /\ placedBuildings[1].id = "wooden_fence"

(***************************************************************************)
(* SpecPause: frames with the pause toggled on and off, over a sown cell   *)
(* and an animal                                                           *)
(***************************************************************************)
MaxPauseOps == 6

PauseNext ==
    /\ ops < MaxPauseOps
    /\ \/ TogglePause
       \/ \E deltaTime \in {PriceUpdateInterval, DaySeconds}, drawnWeather \in {"Sunny", "Rainy"} :
              Tick(deltaTime, drawnWeather, HighDraws, {1}, FALSE)
       \/ Till(OwnedCell)
       \/ Plant(OwnedCell, "carrot")
       \/ PurchaseAnimal("chicken", LedgerCell)

SpecPause == Init /\ [][PauseNext]_vars

\* C19: while the game is paused, a frame update changes no simulation
\* state: the clock, the weather, the price timer and the market prices,
\* every crop's growthStage, every field cell's state and every animal's age,
\* health and happiness are what they were before the frame.
C19_PausedFrameChangesNothing ==
    [][ (last'.op = "tick" /\ isPaused) =>
           /\ UNCHANGED << timeData, weather, lastPriceUpdate, marketPrices >>
           /\ DOMAIN crops' = DOMAIN crops
           /\ \A c \in DOMAIN crops : crops'[c].growthStage = crops[c].growthStage
           /\ DOMAIN fields' = DOMAIN fields
           /\ \A c \in DOMAIN fields : fields'[c].state = fields[c].state
           /\ Len(animals') = Len(animals)
           /\ \A i \in 1..Len(animals) :
                 /\ animals'[i].age = animals[i].age
                 /\ animals'[i].health = animals[i].health
                 /\ animals'[i].happiness = animals[i].happiness ]_vars

\* A frame of a whole day has just been skipped while paused, with a
\* seedling in the ground and a young animal on the farm, both of which an
\* unpaused frame of that length would have changed.
C19_Witness ==
    /\ last.op = "tick"
    /\ ~ last.ok
    /\ last.amount = DaySeconds
    /\ isPaused
    /\ OwnedCell \in DOMAIN crops
    /\ Len(animals) = 1
    /\ afterUpdate(liveState, DaySeconds, "Rainy", HighDraws, {1}).crops # crops
    /\ afterUpdate(liveState, DaySeconds, "Rainy", HighDraws, {1}).animals # animals

(***************************************************************************)
(* SpecRestart: a farm that has spent, bought, built, sown and aged, and   *)
(* is then restarted                                                       *)
(***************************************************************************)
MaxRestartOps == 4

RestartNext ==
    /\ ops < MaxRestartOps
    /\ \/ RestartGame
       \/ BuySeeds("wheat", 1)
       \/ PurchasePlot("north_plot")
       \/ PurchaseEquipment("iron_hoe")
       \/ PlaceBuilding("wooden_fence", LedgerCell)
       \/ PurchaseAnimal("chicken", LedgerCell)
       \/ Till(OwnedCell)
       \/ Plant(OwnedCell, "wheat")
       \/ Tick(DaySeconds, weather.type, MidDraws, {}, FALSE)
       \/ TogglePause
       \/ ToggleVehicle("tractor_1")

SpecRestart == Init /\ [][RestartNext]_vars

\* C20: restartGame leaves every system in its initial state, whatever the
\* state was before the call: the clock at its start value, cash at the
\* starting balance, empty crop, field, animal and placed-building
\* registries, and only the starter plot and the basic hoe owned.
C20_RestartResetsEverything ==
    last.op = "restartGame" =>
        /\ timeData = InitialTimeData
        /\ money = StartMoney
        /\ crops = EmptyMap
        /\ fields = EmptyMap
        /\ animals = << >>
        /\ placedBuildings = << >>
        /\ ownedPlots = InitialOwnedPlots
        /\ ownedEquipment = InitialOwnedEquipment

\* What restartGame does write: the pause flag is off and no vehicle of the
\* map is occupied; every registry is what it was before the call.
C20_RestartKeepsTheRegistries ==
    [][ last'.op = "restartGame" =>
          /\ ~ isPaused'
          /\ \A v \in VehicleIds : ~ vehicles'.occupied[v]
          /\ UNCHANGED << timeData, weather, money, inventory, marketPrices, lastPriceUpdate,
                          crops, fields, animals, nextAnimalId, placedBuildings, ownedPlots,
                          ownedEquipment, ownedAttachments, vehicleAttachments >> ]_vars

\* The game has just been restarted and the north plot, bought before, is
\* still owned and still paid for.
C20_RestartKeepsThePlot ==
    /\ last.op = "restartGame"
    /\ "north_plot" \in ownedPlots
    /\ money = StartMoney - plotCatalog["north_plot"].price
    /\ ~ isPaused

(***************************************************************************)
(* SpecOldSave: documents without the field slice or the attachment slice  *)
(* loaded into a game that has tilled and bought an attachment since       *)
(***************************************************************************)
MaxOldSaveOps == 5

OptionalSlices == {"fieldStateData", "attachmentData"}

OldSaveNext ==
    /\ ops < MaxOldSaveOps
    /\ \/ SaveGame
       \/ LoadGame
       \/ \E slice \in OptionalSlices : ForeignDocument("doc", {slice})
       \/ Till(OwnedCell)
       \/ Plant(OwnedCell, "carrot")
       \/ PurchaseAttachment("heavy_plow")
       \/ Tick(DaySeconds, weather.type, MidDraws, {}, FALSE)

SpecOldSave == Init /\ [][OldSaveNext]_vars

\* C21: loading a document that has no fieldStateData slice (or no
\* attachmentData slice) succeeds, and after the load the field-state
\* registry (respectively the attachment registry) is in its default initial
\* state, whatever it held before the load.
C21_MissingSliceLeavesDefault ==
    (last.op = "loadGame" /\ storage.kind = "doc") =>
        /\ storage.present = SliceNames \ {"fieldStateData"} =>
              last.ok /\ fields = EmptyMap
        /\ storage.present = SliceNames \ {"attachmentData"} =>
              /\ last.ok
              /\ ownedAttachments = {}
              /\ vehicleAttachments = InitialVehicleAttachments

\* What the loader does instead: the load succeeds and the registry whose
\* slice is missing is what it was before the load.
C21_MissingSliceLeavesRegistry ==
    [][ (last'.op = "loadGame" /\ storage.kind = "doc") =>
          /\ storage.present = SliceNames \ {"fieldStateData"} =>
                last'.ok /\ fields' = fields
          /\ storage.present = SliceNames \ {"attachmentData"} =>
                /\ last'.ok
                /\ ownedAttachments' = ownedAttachments
                /\ vehicleAttachments' = vehicleAttachments ]_vars

\* A document without its field slice has just been loaded with success and
\* the cell tilled before the load is still tilled.
C21_StaleFieldsAfterLoad ==
    /\ last.op = "loadGame"
    /\ last.ok
    /\ storage.present = SliceNames \ {"fieldStateData"}
    /\ getFieldState(fields, OwnedCell) = "tilled"
    /\ crops = EmptyMap

(***************************************************************************)
(* SpecVersion: documents stamped with the version of another release      *)
(***************************************************************************)
MaxVersionOps == 5

OtherVersions == {"0.9.0", "2.0.0"}

VersionNext ==
    /\ ops < MaxVersionOps
    /\ \/ SaveGame
       \/ LoadGame
       \/ \E version \in OtherVersions \cup {SaveVersion} : EditSavedVersion(version)
       \/ SetMoney(250)
       \/ Till(OwnedCell)
       \/ PurchaseEquipment("iron_hoe")

SpecVersion == Init /\ [][VersionNext]_vars

\* C22: a stored document whose version differs from the current format
\* version is still returned by SaveManager.loadGame and applied to the
\* registries: the load succeeds and the ledger, the crops, the fields, the
\* plots and the equipment are what their loaders make of the document's
\* slices.
C22_VersionMismatchStillLoads ==
    [][ ( /\ last'.op = "loadGame"
          /\ storage.kind = "doc"
          /\ storage.version # SaveVersion
          /\ storage.present = SliceNames )
        => /\ loadGame(storage) = storage
           /\ last'.ok
           /\ money' = economyLoadSaveData(storage.economyData).money
           /\ inventory' = economyLoadSaveData(storage.economyData).inventory
           /\ crops' = cropsLoadSaveData(storage.cropsData)
           /\ fields' = fieldsLoadSaveData(storage.fieldStateData)
           /\ ownedPlots' = plotsLoadSaveData(storage.farmExpansionData)
           /\ ownedEquipment' = equipmentLoadSaveData(storage.equipmentData) ]_vars

\* A document of version 0.9.0 has just been loaded over a game that had
\* spent its cash since: the cash and the tilled cell of the document are
\* back.
C22_Witness ==
    /\ last.op = "loadGame"
    /\ last.ok
    /\ storage.version = "0.9.0"
    /\ ops = 5
    /\ money = StartMoney
    /\ getFieldState(fields, OwnedCell) = "tilled"

(***************************************************************************)
(* SpecFallow: one cell tilled, sown and harvested early or late in the    *)
(* spring, then left alone while the clock runs day after day through the  *)
(* summer.  The frame loop never stops, hence the fairness of the daily    *)
(* tick.                                                                   *)
(***************************************************************************)
MaxFallowOps == 7

\* The seasons the clock runs through.
FallowSeasons == {"Spring", "Summer"}

\* A jump of the clock to the last week of the season.
LateJump == 24 * DaySeconds

FallowTick ==
    /\ timeData.season \in FallowSeasons
    /\ Tick(DaySeconds, weather.type, MidDraws, {}, FALSE)

\* The commands are issued where they have an effect.
FallowNext ==
    \/ /\ ops < MaxFallowOps
       /\ \/ tillable(fields, OwnedCell) /\ Till(OwnedCell)
          \/ getFieldState(fields, OwnedCell) = "tilled" /\ Plant(OwnedCell, "carrot")
          \/ canHarvest(crops, OwnedCell) /\ Harvest(OwnedCell, 2)
          \/ ops = 0 /\ Tick(LateJump, weather.type, MidDraws, {}, FALSE)
    \/ FallowTick

SpecFallow == Init /\ [][FallowNext]_vars /\ WF_vars(FallowTick)

C23_EarlyHarvestDecays ==
    ( /\ getFieldState(fields, OwnedCell) = "harvested"
      /\ fields[OwnedCell].lastStateChange <= 21 )
    ~> getFieldState(fields, OwnedCell) = "stubble"

MaxWeatherOps == 6

WeatherNext ==
    /\ ops < MaxWeatherOps
    /\ \/ Till(OwnedCell)
       \/ \E cropType \in {"carrot", "corn"} : Plant(OwnedCell, cropType)
       \/ \E baseAmount \in {2, 4} : Harvest(OwnedCell, baseAmount)
       \/ \E deltaTime \in {HalfDaySeconds, DaySeconds}, drawnWeather \in WeatherTypes :
              Tick(deltaTime, drawnWeather, MidDraws, {}, FALSE)

SpecWeather == Init /\ [][WeatherNext]_vars

\* C24: in every behaviour of commands and ticks, whenever a cell's field
\* state changes to 'planted', its state immediately before the change was
\* 'tilled'.
C24_PlantedOnlyFromTilled ==
    [][ \A c \in DOMAIN fields' :
          ( /\ fields'[c].state = "planted"
            /\ getFieldState(fields, c) # "planted" )
          => getFieldState(fields, c) = "tilled" ]_vars

\* The part that holds: a command changes a cell to 'planted' only from
\* 'tilled'; every other change to 'planted' is made by a tick, from
\* 'growing' or 'mature', when the crop's stage falls back to 0.
C24_CommandsPlantOnlyOnTilled ==
    [][ \A c \in DOMAIN fields' :
          ( /\ fields'[c].state = "planted"
            /\ getFieldState(fields, c) # "planted" )
          => \/ last'.op = "plant" /\ getFieldState(fields, c) = "tilled"
             \/ /\ last'.op = "tick"
                /\ getFieldState(fields, c) \in {"growing", "mature"}
                /\ crops'[c].growthStage = 0 ]_vars

\* A tick of half a day has just left the cell 'planted' on the day after
\* the sowing, in a storm: the carrot that the rain of the morning had made
\* grow to stage 1 is computed as a seedling again.
C24_GrowingBackToPlanted ==
    /\ last.op = "tick"
    /\ last.amount = HalfDaySeconds
    /\ weather.type = "Stormy"
    /\ getFieldState(fields, OwnedCell) = "planted"
    /\ OwnedCell \in DOMAIN crops
    /\ crops[OwnedCell].type = "carrot"
    /\ calculateDaysSincePlanted(crops[OwnedCell], timeData) = 1
    /\ newGrowthStage(crops[OwnedCell], timeData, "Rainy") = 1

(***************************************************************************)
(* SpecAttach: till and plant on foot and from the tractor with each       *)
(* attachment of the catalog mounted                                       *)
(***************************************************************************)
MaxAttachOps == 4

AttachNext ==
    /\ ops < MaxAttachOps
    /\ \/ \E a \in AttachmentIds : PurchaseAttachment(a)
       \/ ToggleVehicle("tractor_1")
       \/ Till(OwnedCell)
       \/ Plant(OwnedCell, "carrot")

SpecAttach == Init /\ [][AttachNext]_vars

\* C27: a till or plant made with a mounted attachment of workingArea w
\* considers exactly w x w cells, a square of side w around the targeted
\* cell, for every workingArea value in the attachment catalog (2 for the
\* cultivator, 3 for the plow and the seeder), and exactly 1 cell when no
\* attachment is mounted: the neighbourhood has w x w cells and the command
\* changes no cell outside it, hence at most w x w cells.
C27_WorkingAreaSquare ==
    [][ last'.op \in {"till", "plant"} =>
          LET w == workingAreaOf(vehicles, ownedAttachments, vehicleAttachments)
          IN  /\ Cardinality(neighbourhood(last'.cell)) = w * w
              /\ Cardinality(changedCells(fields, fields')) <= w * w ]_vars

\* The part that holds: the neighbourhood is the square of side
\* 2 * floor(w / 2) + 1, which is w for the odd values only.
C27_WorkingAreaOddSquare ==
    [][ last'.op \in {"till", "plant"} =>
          LET w == workingAreaOf(vehicles, ownedAttachments, vehicleAttachments)
              side == 2 * (w \div 2) + 1
          IN  /\ Cardinality(neighbourhood(last'.cell)) = side * side
              /\ changedCells(fields, fields') \subseteq neighbourhood(last'.cell) ]_vars

\* A till from the tractor with the cultivator (workingArea 2) has just
\* tilled nine cells.
C27_CultivatorTillsNine ==
    /\ last.op = "till"
    /\ last.ok
    /\ last.amount = 9
    /\ vehicles.current = "tractor_1"
    /\ vehicleAttachments["tractor_1"] = "cultivator"
    /\ workingAreaOf(vehicles, ownedAttachments, vehicleAttachments) = 2

(***************************************************************************)
(* SpecTrueDays: crops planted in year 1 and left to grow while the clock  *)
(* runs by days and by seasons into year 2 under changing weather          *)
(***************************************************************************)
MaxTrueDaysOps == 7

TrueDaysNext ==
    /\ ops < MaxTrueDaysOps
    /\ \/ /\ timeData.year = 1
          /\ \E cropType \in {"carrot", "corn"} : PlantCrop(cropType, OwnedCell)
       \/ HarvestCrop(OwnedCell, 3)
       \/ \E delta \in {DaySeconds, SeasonSeconds}, drawnWeather \in {"Sunny", "Rainy"} :
              Tick(delta, drawnWeather, MidDraws, {}, FALSE)

SpecTrueDays == Init /\ [][TrueDaysNext]_vars

\* Days since the first day of year 1, 30 days per season and 4 seasons per
\* year.
absoluteDay(year, season, day) == ((year - 1) * 4 + seasonIndex(season)) * 30 + day

\* The true number of in-game days since the planting of a crop planted in
\* year 1.
trueDaysSincePlanted(crop, td) ==
    absoluteDay(td.year, td.season, td.day) - absoluteDay(1, crop.plantedSeason, crop.plantedDay)

\* The stage of progress p = days * multiplier / (100 * growthTime): 0 below
\* 0.25, 1 below 0.5, 2 below 0.75, 3 from 0.75 on.
stageOfProgress(days, multiplier, time) ==
    LET e == days * multiplier
        g == 100 * time
    IN  IF 4 * e < g THEN 0
        ELSE IF 2 * e < g THEN 1
        ELSE IF 4 * e < 3 * g THEN 2
        ELSE 3

\* C28: after each growth update, for every crop and every clock state
\* reachable after its planting, growthStage is 0 if p < 0.25, 1 if
\* 0.25 <= p < 0.5, 2 if 0.5 <= p < 0.75 and 3 if p >= 0.75, where p is the
\* true number of in-game days elapsed since planting (30 days per season,
\* 4 seasons per year) times the growth multiplier of the current weather
\* over the growth time of the crop type.
C28_StageFollowsTrueDays ==
    [][ last'.op = "tick" =>
          \A c \in DOMAIN crops' :
              crops'[c].growthStage =
                  stageOfProgress(trueDaysSincePlanted(crops'[c], timeData'),
                                  getWeatherGrowthMultiplier(weather'.type),
                                  growthTime[crops'[c].type]) ]_vars

\* The part that holds: the stage follows the true days for the first 90
\* days after planting, before the planting season comes round again.
C28_StageFollowsTrueDaysFirstSeasons ==
    [][ last'.op = "tick" =>
          \A c \in DOMAIN crops' :
              trueDaysSincePlanted(crops'[c], timeData') <= 90 =>
                  crops'[c].growthStage =
                      stageOfProgress(trueDaysSincePlanted(crops'[c], timeData'),
                                      getWeatherGrowthMultiplier(weather'.type),
                                      growthTime[crops'[c].type]) ]_vars

\* A crop planted in Spring of year 1 stands at stage 0 in Spring of year 2,
\* at least 100 true days after its planting.
C28_SeedlingAYearLater ==
    /\ last.op = "tick"
    /\ OwnedCell \in DOMAIN crops
    /\ timeData.year = 2
    /\ trueDaysSincePlanted(crops[OwnedCell], timeData) >= 100
    /\ crops[OwnedCell].growthStage = 0

(***************************************************************************)
(* SpecClock: the clock under updates of a minute, an hour, a day, a       *)
(* season and more than a year                                             *)
(***************************************************************************)
MaxClockOps == 6

YearAndMore == 4 * SeasonSeconds + DaySeconds + 61

\* From 06:00 of the first day of a year to 23:59 of its last day.
ToYearEnd == 4 * SeasonSeconds - 361

ClockDeltas == {0, 1, 59, 60, DaySeconds - 1, DaySeconds, SeasonSeconds, ToYearEnd, YearAndMore}

ClockNext ==
    /\ ops < MaxClockOps
    /\ \E deltaTime \in ClockDeltas : Tick(deltaTime, weather.type, MidDraws, {}, FALSE)

SpecClock == Init /\ [][ClockNext]_vars

\* TimeSystem.advanceSeason
advanceSeason(td) ==
    LET next == Seasons[((seasonIndex(td.season) + 1) % 4) + 1]
    IN  [td EXCEPT !.season = next,
                   !.year = IF next = "Spring" THEN td.year + 1 ELSE td.year]

\* The while loop of TimeSystem.addMinutes, one hour per iteration.
RECURSIVE carryMinutes(_)
carryMinutes(td) ==
    IF td.minute < 60 THEN td
    ELSE LET hour == td.hour + 1
             a == [td EXCEPT !.minute = td.minute - 60,
                             !.hour = IF hour >= 24 THEN 0 ELSE hour,
                             !.day = IF hour >= 24 THEN td.day + 1 ELSE td.day]
             b == IF hour >= 24 /\ a.day > DaysInSeason
                  THEN advanceSeason([a EXCEPT !.day = 1])
                  ELSE a
         IN  carryMinutes(b)

\* TimeSystem.addMinutes as written: the addition, then the loop.
addMinutesLoop(td, minutes) == carryMinutes([td EXCEPT !.minute = td.minute + minutes])

\* Minutes since midnight of the first day of year 1.
absoluteMinute(td) ==
    (absoluteDay(td.year, td.season, td.day) - 1) * DaySeconds + td.hour * 60 + td.minute

clockInRange(td) ==
    /\ td.minute \in 0..59
    /\ td.hour \in 0..23
    /\ td.day \in 1..DaysInSeason
    /\ td.year >= 1

\* C29: in every reachable clock state 0 <= minute <= 59, 0 <= hour <= 23,
\* 1 <= day <= 30 and year >= 1, for any sequence of update(deltaTime) calls
\* with any non-negative deltaTime; the season advances exactly when day
\* passes 30 and resets to 1, and year increases by one exactly when the
\* season goes from Winter to Spring.  An update adds exactly its minutes to
\* the calendar of 30 days per season and 4 seasons per year; an update of
\* at most a day leaves the clock where the carry loop leaves it, moves the
\* season on exactly when day 30 gives way to day 1, and the year exactly
\* when Winter gives way to Spring.
C29_ClockCarries ==
    /\ [] clockInRange(timeData)
    /\ [][ last'.op = "tick" =>
             /\ absoluteMinute(timeData') = absoluteMinute(timeData) + last'.amount
             /\ last'.amount <= DaySeconds =>
                  /\ timeData' = addMinutesLoop(timeData, last'.amount)
                  /\ (timeData'.season # timeData.season)
                        <=> (timeData.day = DaysInSeason /\ timeData'.day = 1)
                  /\ (timeData'.season # timeData.season)
                        => timeData'.season = advanceSeason(timeData).season
                  /\ (timeData'.year = timeData.year + 1)
                        <=> (timeData.season = "Winter" /\ timeData'.season = "Spring")
                  /\ timeData'.year \in {timeData.year, timeData.year + 1} ]_vars

\* An update of one minute has just carried 23:59 of Winter day 30 into
\* 00:00 of Spring day 1 of the next year.
C29_Witness ==
    /\ last.op = "tick"
    /\ last.amount = 1
    /\ timeData = [hour |-> 0, minute |-> 0, day |-> 1, season |-> "Spring", year |-> 2]

(***************************************************************************)
(* SpecOrder: one cell tilled, planted, harvested and left alone while the *)
(* clock runs by half days and days under changing weather                 *)
(***************************************************************************)
MaxOrderOps == 10

OrderNext ==
    /\ ops < MaxOrderOps
    /\ \/ Till(OwnedCell)
       \/ Plant(OwnedCell, "carrot")
       \/ Harvest(OwnedCell, 2)
       \/ \E deltaTime \in {HalfDaySeconds, DaySeconds}, drawnWeather \in {"Sunny", "Stormy"} :
              Tick(deltaTime, drawnWeather, MidDraws, {}, FALSE)

SpecOrder == Init /\ [][OrderNext]_vars

\* C30: within each unpaused tick the sub-updates run in the fixed order
\* Clock, Weather, Economy price timer, Crop growth, Field-state derivation,
\* Field decay, each completing before the next starts, so that crop growth
\* uses the weather type and day produced earlier in the same tick and field
\* decay uses the day of the same tick: after the tick the clock has moved
\* by the frame, every crop has the stage of the new clock and the new
\* weather, and the fields are those derived from the new crops and then
\* decayed, both on the new day.
C30_SubUpdatesInOrder ==
    [][ (last'.op = "tick" /\ last'.ok) =>
          /\ timeData' = timeUpdate(timeData, last'.amount)
          /\ crops' = cropUpdate(crops, timeData', weather'.type)
          /\ fields' = processFieldDecay(fieldUpdate(fields, crops', timeData'.day),
                                         timeData'.day) ]_vars

\* A tick has just changed both the day and the weather, and the crop has
\* the stage of the new day and the new weather, which is neither its stage
\* on the old day nor its stage under the old weather.
C30_Witness ==
    /\ last.op = "tick"
    /\ last.ok
    /\ OwnedCell \in DOMAIN crops
    /\ weather.type = "Stormy"
    /\ crops[OwnedCell].growthStage = newGrowthStage(crops[OwnedCell], timeData, "Stormy")
    /\ crops[OwnedCell].growthStage # newGrowthStage(crops[OwnedCell], timeData, "Sunny")
    /\ crops[OwnedCell].growthStage #
          newGrowthStage(crops[OwnedCell],
                         [timeData EXCEPT !.day = crops[OwnedCell].plantedDay], "Stormy")
    /\ weather.timer = 0

\* A tick has just turned the harvested cell into stubble, on the day the
\* same tick brought.
C30_WitnessDecay ==
    /\ last.op = "tick"
    /\ last.ok
    /\ getFieldState(fields, OwnedCell) = "stubble"
    /\ fields[OwnedCell].lastStateChange = timeData.day

(***************************************************************************)
(* SpecSell: crops stored, sold singly and all at once while the market    *)
(* prices move                                                             *)
(***************************************************************************)
MaxSellOps == 5

SellNext ==
    /\ ops < MaxSellOps
    /\ \/ \E cropType \in {"wheat", "carrot"}, quantity \in {2, 3} :
              AddToInventory(cropType, quantity)
       \/ \E cropType \in {"wheat", "carrot"}, quantity \in {1, 3} :
              SellCrop(cropType, quantity)
       \/ SellAllCrops
       \/ \E draws \in {LowDraws, HighDraws} : Tick(DaySeconds, "Sunny", draws, {}, FALSE)

SpecSell == Init /\ [][SellNext]_vars

\* C33: sellAllCrops leaves every inventory count at 0, returns for each
\* crop type the count held just before the call, and increases cash by
\* exactly the sum over crop types of (that count x the current market
\* price); sellCrop with a quantity larger than the held count changes
\* neither inventory nor cash and returns false.
C33_SellContract ==
    [][ /\ last'.op = "sellAllCrops" =>
             /\ \A cropType \in CropTypes : inventory'[cropType] = 0
             /\ sellAllCrops(money, inventory, marketPrices).sold = inventory
             /\ last'.amount = getTotalInventoryCount(inventory)
             /\ money' = money + inventory["wheat"] * marketPrices["wheat"]
                               + inventory["corn"] * marketPrices["corn"]
                               + inventory["potato"] * marketPrices["potato"]
                               + inventory["carrot"] * marketPrices["carrot"]
        /\ (last'.op = "sellCrop" /\ last'.amount > inventory[last'.type]) =>
             /\ ~ last'.ok
             /\ UNCHANGED << money, inventory >> ]_vars

\* Wheat and carrots have just been sold all at once at prices that are not
\* the base prices.
C33_Witness ==
    /\ last.op = "sellAllCrops"
    /\ last.amount = 5
    /\ marketPrices["wheat"] # basePrices["wheat"]
    /\ money > StartMoney
    /\ getTotalInventoryCount(inventory) = 0

\* A sale of three has just been refused while two were held.
C33_WitnessRefused ==
    /\ last.op = "sellCrop"
    /\ ~ last.ok
    /\ last.amount = 3
    /\ inventory[last.type] = 2

(***************************************************************************)
(* SpecHerd: chickens bought in Spring and sheep bought in Summer of year  *)
(* 1, never fed, while the clock runs by half days, days and seasons       *)
(***************************************************************************)
MaxHerdOps == 5

HerdCell == <<2, 2>>

HerdNext ==
    /\ ops < MaxHerdOps
    /\ \/ /\ timeData.year = 1
          /\ timeData.season = "Spring"
          /\ PurchaseAnimal("chicken", HerdCell)
       \/ /\ timeData.year = 1
          /\ timeData.season = "Summer"
          /\ PurchaseAnimal("sheep", HerdCell)
       \/ \E deltaTime \in {HalfDaySeconds, DaySeconds, SeasonSeconds} :
              Tick(deltaTime, weather.type, MidDraws, {}, FALSE)

SpecHerd == Init /\ [][HerdNext]_vars

\* The season of year 1 an animal of the herd was bought in.
purchaseSeason(a) == IF a.type = "chicken" THEN "Spring" ELSE "Summer"

\* The number of in-game days since the purchase of an animal that was
\* never fed (lastFed is still the day of the purchase), 30 days per season.
daysSincePurchase(a, td) ==
    absoluteDay(td.year, td.season, td.day) - absoluteDay(1, purchaseSeason(a), a.lastFed)

\* C34: after every tick, each animal's age equals the number of in-game
\* days elapsed since it was purchased (counted with 30 days per season,
\* across season boundaries); in particular an animal's age is 0 until a
\* full in-game day has passed since its purchase.
C34_AgeIsDaysSincePurchase ==
    last.op = "tick" =>
        \A i \in 1..Len(animals) : animals[i].age = daysSincePurchase(animals[i], timeData)

\* A sheep bought in Summer is older than 28 days after a tick on the day
\* of its purchase.
C34_OldOnTheFirstDay ==
    /\ last.op = "tick"
    /\ \E i \in 1..Len(animals) :
          /\ animals[i].type = "sheep"
          /\ daysSincePurchase(animals[i], timeData) = 0
          /\ animals[i].age > 28

(***************************************************************************)
(* SpecFeed: a chicken and a cow bought and fed with the cash set low      *)
(* while the clock runs by a day and by 29 days                            *)
(***************************************************************************)
MaxFeedOps == 6

FeedCell == <<2, 2>>

\* Cash that covers the cow or the chicken but not both (15 + 2), and cash
\* that covers both.
FeedCash == {16, 20}

FeedNext ==
    /\ ops < MaxFeedOps
    /\ \/ \E animalType \in {"chicken", "cow"} : PurchaseAnimal(animalType, FeedCell)
       \/ FeedAnimals
       \/ \E amount \in FeedCash : SetMoney(amount)
       \/ \E deltaTime \in {DaySeconds, SeasonSeconds - DaySeconds} :
              Tick(deltaTime, weather.type, MidDraws, {}, FALSE)

SpecFeed == Init /\ [][FeedNext]_vars

\* The animal after a feeding: lastFed is the day, happiness is raised by 20
\* and health by 10, capped at 100.
fed(a, day) ==
    [a EXCEPT !.lastFed = day,
              !.happiness = Min(100, a.happiness + 20),
              !.health = Min(100, a.health + 10)]

\* C35: on every in-game day of every season, feedAnimals feeds each animal
\* that has not yet been fed on that day when cash covers its daily upkeep:
\* it sets the animal's lastFed to the current day and raises happiness by
\* 20 and health by 10, capped at 100; an animal already fed on that day is
\* left unchanged.  A feedAnimals call that follows a tick of a day or more
\* finds no animal fed on the current day; one that follows another
\* feedAnimals call finds the animals it fed already fed.
C35_FedOncePerDay ==
    [][ last'.op = "feedAnimals" =>
          /\ (last.op = "tick" /\ last.ok /\ last.amount >= DaySeconds) =>
                \A i \in 1..Len(animals) :
                    money >= animalInfo[animals[i].type].dailyUpkeep
                        => animals'[i] = fed(animals[i], timeData.day)
          /\ last.op = "feedAnimals" =>
                \A i \in 1..Len(animals) :
                    animals[i].lastFed = timeData.day => animals'[i] = animals[i] ]_vars

\* The part that holds: an animal whose lastFed is below the day number of
\* the current day is fed when cash covers its upkeep, and an animal whose
\* lastFed is not below it is left unchanged.
C35_FedWhenDayNumberIsHigher ==
    [][ last'.op = "feedAnimals" =>
          \A i \in 1..Len(animals) :
              /\ ( /\ animals[i].lastFed < timeData.day
                   /\ money >= animalInfo[animals[i].type].dailyUpkeep )
                    => animals'[i] = fed(animals[i], timeData.day)
              /\ animals[i].lastFed >= timeData.day => animals'[i] = animals[i] ]_vars

\* A feedAnimals call on the first day of Summer has just left unfed an
\* animal last fed on the second day of Spring, with cash for its upkeep.
C35_UnfedInSummer ==
    /\ last.op = "feedAnimals"
    /\ timeData.season = "Summer"
    /\ timeData.day = 1
    /\ \E i \in 1..Len(animals) :
          /\ animals[i].lastFed = 2
          /\ money >= animalInfo[animals[i].type].dailyUpkeep

\* Whether the call that took the herd from old to new marked animal i as
\* fed on the day.
markedFed(old, new, day, i) == old[i].lastFed # day /\ new[i].lastFed = day

\* The sum of dailyUpkeep over the animals among the first n that the call
\* marked as fed.
RECURSIVE upkeepOfFed(_, _, _, _)
upkeepOfFed(old, new, day, n) ==
    IF n = 0 THEN 0
    ELSE upkeepOfFed(old, new, day, n - 1)
         + (IF markedFed(old, new, day, n) THEN animalInfo[old[n].type].dailyUpkeep ELSE 0)

\* C36: a feedAnimals call decreases cash by exactly the sum of dailyUpkeep
\* over the animals it marks as fed in that call, and it marks an animal as
\* fed only if the cash remaining after paying for the animals fed earlier
\* in the same call covers that animal's upkeep.
C36_FeedingIsPaidFor ==
    [][ last'.op = "feedAnimals" =>
          /\ money - money' = upkeepOfFed(animals, animals', timeData.day, Len(animals))
          /\ \A i \in 1..Len(animals) :
                 markedFed(animals, animals', timeData.day, i) =>
                     money - upkeepOfFed(animals, animals', timeData.day, i - 1)
                         >= animalInfo[animals[i].type].dailyUpkeep ]_vars

\* The part that holds: each animal marked as fed is covered by the cash
\* held before the call, and the cash decreases by the sum of the upkeep or
\* to 0, whichever comes first.
C36_FeedingPaidAsFarAsCashGoes ==
    [][ last'.op = "feedAnimals" =>
          /\ money' = Max(0, money - upkeepOfFed(animals, animals', timeData.day, Len(animals)))
          /\ \A i \in 1..Len(animals) :
                 markedFed(animals, animals', timeData.day, i) =>
                     money >= animalInfo[animals[i].type].dailyUpkeep ]_vars

\* A cow and a chicken have just been fed for 17 out of a cash of 16.
C36_FedBeyondCash ==
    /\ last.op = "feedAnimals"
    /\ last.amount = 17
    /\ money = 0
    /\ Len(animals) = 2
    /\ \A i \in 1..2 : animals[i].lastFed = timeData.day

(***************************************************************************)
(* SpecBarn: one cell tilled, planted and harvested while the store is     *)
(* filled to the brim or nearly                                            *)
(***************************************************************************)
MaxBarnOps == 6

BarnNext ==
    /\ ops < MaxBarnOps
    /\ \/ Till(OwnedCell)
       \/ Plant(OwnedCell, "carrot")
       \/ \E baseAmount \in {2, 4} : Harvest(OwnedCell, baseAmount)
       \/ \E quantity \in {BaseCapacity - 3, BaseCapacity} : AddToInventory("wheat", quantity)
       \/ Tick(3 * DaySeconds, weather.type, MidDraws, {}, FALSE)

SpecBarn == Init /\ [][BarnNext]_vars

\* C38: a harvest command on a crop with growthStage 3 always removes the
\* crop and sets the cell to 'harvested', also when storage is full:
\* inventory grows by min(amount, remaining capacity) and the part of the
\* yield that does not fit is discarded rather than left on the field.
C38_HarvestAlwaysClearsTheCell ==
    [][ ( /\ last'.op = "harvest"
          /\ last'.cell \in DOMAIN crops
          /\ crops[last'.cell].growthStage = 3 )
        => LET c == last'.cell
               type == crops[c].type
               remaining == Max(0, getStorageCapacity(ownedEquipment, placedBuildings)
                                   - getTotalInventoryCount(inventory))
           IN  /\ last'.ok
               /\ last'.type = type
               /\ last'.amount >= 1
               /\ crops' = MapDelete(crops, c)
               /\ getFieldState(fields', c) = "harvested"
               /\ inventory' = [inventory EXCEPT ![type] = inventory[type] + Min(last'.amount, remaining)]
       ]_vars

\* A harvest of four carrots has just cleared the cell with room for three
\* in the store: three were stored and the store is full.
C38_Witness ==
    /\ last.op = "harvest"
    /\ last.ok
    /\ last.amount = 4
    /\ inventory["carrot"] = 3
    /\ getTotalInventoryCount(inventory) = getStorageCapacity(ownedEquipment, placedBuildings)
    /\ OwnedCell \notin DOMAIN crops
    /\ getFieldState(fields, OwnedCell) = "harvested"

(***************************************************************************)
(* SpecSeeds: tilling and planting on foot and from the tractor with the   *)
(* seeder, with cash for some of the nine seeds and for all of them        *)
(***************************************************************************)
MaxSeedsOps == 6

\* Cash for six wheat seeds and cash for more than nine.
SeedsCash == {6 * seedPrices["wheat"], 100 * seedPrices["wheat"]}

SeedsNext ==
    /\ ops < MaxSeedsOps
    /\ \/ Till(OwnedCell)
       \/ Plant(OwnedCell, "wheat")
       \/ PurchaseAttachment("precision_seeder")
       \/ ToggleVehicle("tractor_1")
       \/ \E amount \in SeedsCash : SetMoney(amount)

SpecSeeds == Init /\ [][SeedsNext]_vars

\* C39: a plant command is gated on the cost of the whole neighbourhood: if
\* cash < seedPrice x (number of neighbourhood cells) no crop is planted and
\* no cash is spent, even when fewer cells are plantable; otherwise cash
\* decreases by exactly seedPrice x (number of crops the command creates).
C39_PlantGatedOnWholeNeighbourhood ==
    [][ last'.op = "plant" =>
          LET created == (DOMAIN crops') \ (DOMAIN crops)
          IN  /\ DOMAIN crops \subseteq DOMAIN crops'
              /\ last'.amount = Cardinality(created)
              /\ IF money < seedPrices[last'.type] * Cardinality(neighbourhood(last'.cell))
                 THEN created = {} /\ money' = money
                 ELSE money' = money - seedPrices[last'.type] * Cardinality(created) ]_vars

\* A plant from the tractor with the seeder has just been refused with cash
\* for six seeds, on a tilled cell that alone was plantable.
C39_Witness ==
    /\ last.op = "plant"
    /\ ~ last.ok
    /\ Cardinality(neighbourhood(last.cell)) = 9
    /\ money = 6 * seedPrices["wheat"]
    /\ getFieldState(fields, last.cell) = "tilled"
    /\ \A c \in neighbourhood(last.cell) \ {last.cell} : getFieldState(fields, c) # "tilled"
    /\ crops = EmptyMap

(***************************************************************************)
(* SpecGarage: entering and leaving the vehicles, saving and loading       *)
(***************************************************************************)
MaxGarageOps == 6

GarageNext ==
    /\ ops < MaxGarageOps
    /\ \/ \E v \in VehicleIds : ToggleVehicle(v)
       \/ SaveGame
       \/ LoadGame

SpecGarage == Init /\ [][GarageNext]_vars

\* C40: after any sequence of enter-vehicle and exit-vehicle commands and
\* vehicle save/load round-trips, at most one vehicle has isOccupied = true,
\* and a vehicle has isOccupied = true if and only if it is the current
\* vehicle; in particular a load of a document saved while driving leaves
\* the player in that vehicle and the vehicle can still be exited and
\* re-entered.
C40_OccupiedIffCurrent ==
    /\ Cardinality({v \in VehicleIds : vehicles.occupied[v]}) <= 1
    /\ \A v \in VehicleIds : vehicles.occupied[v] <=> vehicles.current = v
    /\ (last.op = "loadGame" /\ last.ok /\ storage.vehicleData.isInVehicle)
          => vehicles.current = storage.vehicleData.currentVehicleId

\* The part that holds: the current vehicle is occupied.
C40_CurrentIsOccupied ==
    vehicles.current # NoneId => vehicles.occupied[vehicles.current]

\* A load of a document saved while driving the tractor has just left the
\* tractor occupied and the player on foot.
C40_OccupiedWithoutDriver ==
    /\ last.op = "loadGame"
    /\ last.ok
    /\ storage.vehicleData.isInVehicle
    /\ storage.vehicleData.currentVehicleId = "tractor_1"
    /\ vehicles.current = NoneId
    /\ vehicles.occupied["tractor_1"]

====
